---- MODULE Spec2Model ----
(***************************************************************************)
(* Verification model of the Synapse compiler middle-end and runtime:      *)
(*   - the ASG graph store, its wire form and its hash (asg_core),         *)
(*   - the Level-1 unifier and Algorithm-W checker (type_checker_l1),      *)
(*   - the Level-2 ADT / effect entry point (type_checker_l2),             *)
(*   - the Level-0 structural validator (synapse_cli linter),              *)
(*   - the ASG to UPIR lowerer (asg_to_upir),                              *)
(*   - the circuit breaker, with_retry and the scheduler (synapse_uart).   *)
(* Each component has its own specification (Spec, SpecMut, SpecUnify,     *)
(* SpecBind, SpecL1, SpecL2, SpecLint, SpecLower, SpecHash, SpecBreaker,   *)
(* SpecRetry, SpecSched and SpecSchedFair); the variables of the other     *)
(* components stay at their initial value.                                 *)
(***************************************************************************)
EXTENDS Integers, Sequences, FiniteSets, TLC

VARIABLES
    nodes,            \* AsgGraph.nodes : HashMap<u64, AsgNode>
    next_id,          \* AsgGraph.next_id : AtomicU64
    root_id,          \* AsgGraph.root_id : Option<u64>
    overflow_checks,  \* build profile: TRUE = arithmetic overflow panics (debug)
    panicked,         \* the thread has panicked (arithmetic overflow)
    issued,           \* history: ids returned by add_node, in call order
    built,            \* history: constructor of the current graph, "new" or "proto"
    loaded,           \* history: <<node ids right after from_proto, Len(issued) then>>
    rt,               \* history: <<root, hash_graph>> of the graph the last save/load started from
    u_a, u_b,         \* unifier: the two types handed to unify
    u_subst,          \* unifier: the SubstitutionMap
    u_log,            \* unifier: outcome of the last step
    l1_graph,         \* L1 checker: the graph handed to check_and_annotate_graph
    l1_out,           \* L1 checker: its return value
    l1_calls,         \* history: the node ids infer ran on during the call, in order
    l2_graph,         \* L2 checker: the graph handed to the entry point
    l2_allowed,       \* L2 checker: the caller's allowed-effects set
    l2_out,           \* L2 checker: its return value
    l0_graph,         \* validator: the graph handed to lint_graph
    l0_out,           \* validator: the diagnostics of the last lint_graph call
    lw_graph,         \* lowerer: the graph handed to lower_graph_to_upir
    lw_types,         \* lowerer: the TypeCheckMap handed to it
    lw_out,           \* lowerer: its return value, with the context it ended in
    hs_a, hs_b,       \* hashing: the two graphs handed to hash_graph
    hs_out,           \* hashing: their digests
    cb_state,         \* CircuitBreaker.state : Mutex<CircuitState>
    failure_count,    \* CircuitBreaker.failure_count : AtomicUsize
    success_count,    \* CircuitBreaker.success_count : AtomicUsize
    timeout_elapsed,  \* last_state_change.elapsed() >= reset_timeout, at this instant
    cb_thread,        \* per caller: its position in execute / reset, and its locals
    wr_policy,        \* with_retry: the RetryPolicy and the operation's fault type
    wr_run,           \* with_retry: position in the loop, retry_count, invocations
    sc_control,       \* scheduler: channels, injector, shutdown flag, next_task_id
    sc_threads,       \* scheduler: the worker threads and the command thread
    sc_tasks          \* scheduler: per spawn call, its handle and its task

graphVars == <<nodes, next_id, root_id, overflow_checks, panicked,
               issued, built, loaded, rt>>
unifyVars == <<u_a, u_b, u_subst, u_log>>
l1Vars    == <<l1_graph, l1_out, l1_calls>>
l2Vars    == <<l2_graph, l2_allowed, l2_out>>
lintVars  == <<l0_graph, l0_out>>
lowerVars == <<lw_graph, lw_types, lw_out>>
hashVars  == <<hs_a, hs_b, hs_out>>
breakerVars == <<cb_state, failure_count, success_count, timeout_elapsed, cb_thread>>
retryVars == <<wr_policy, wr_run>>
schedVars == <<sc_control, sc_threads, sc_tasks>>
uartVars  == <<breakerVars, retryVars, schedVars>>
compilerVars == <<graphVars, unifyVars, l1Vars, l2Vars, lintVars, lowerVars, hashVars>>
vars      == <<compilerVars, uartVars>>

-----------------------------------------------------------------------------
(* Option<T>: None is the empty tuple, Some(x) the one-element tuple.      *)
None == <<>>
Some(x) == <<x>>

(* Bounds of the model.                                                    *)
\* u64 is modelled with IdBits bits, so that u64::MAX is a value TLC can hold.
IdBits == 12
\* number of add_node calls in one behaviour
MaxInserts == 2
\* number of nodes in a message handed to from_proto
MaxProtoNodes == 1

U64Modulus == 2 ^ IdBits
U64Max == U64Modulus - 1

(* NodeType discriminators (the generated enum, as listed by save_asg_json). *)
TERM_VARIABLE == 1
TERM_LAMBDA == 2
TERM_APPLICATION == 3
LITERAL_INT == 4
LITERAL_BOOL == 5
PRIMITIVE_OP == 6
TERM_REF == 7
TERM_DEREF == 8
TERM_ASSIGN == 9

-----------------------------------------------------------------------------
(* Graph store: asg_core/src/graph.rs                                      *)

\* payloads carried by the nodes of a wire message
StoreContents ==
    { <<LITERAL_INT, [variant |-> "LiteralInt", value |-> 1]>>,
      <<LITERAL_BOOL, [variant |-> "LiteralBool", value |-> 1]>> }

\* payloads handed to add_node (the literal of test_serialization_roundtrip)
AddContents == { <<LITERAL_BOOL, [variant |-> "LiteralBool", value |-> 1]>> }

\* node ids a wire message may carry
ProtoIds == {0, 1, U64Max}

AsgNode(id, ty, content) == [node_id |-> id, type |-> ty, content |-> content]

contains_node(ns, id) == id \in DOMAIN ns

map_insert(ns, k, v) == [x \in DOMAIN ns \cup {k} |-> IF x = k THEN v ELSE ns[x]]
map_remove(ns, k) == [x \in DOMAIN ns \ {k} |-> ns[x]]
EmptyMap == [x \in {} |-> x]

\* an allocator that hands out the counter without advancing it
generate_id_no_advance(n) == [id |-> n, next_id |-> n]

\* AsgGraph::generate_id: fetch_add(1) returns the old value and wraps around
\* on overflow in every build
generate_id(n) == [id |-> n, next_id |-> (n + 1) % U64Modulus]

new_graph == [nodes |-> EmptyMap, next_id |-> 1, root_id |-> None]

\* AsgGraph::add_node on the record g: <<graph after the call, returned id>>
add_node(g, ty, content) ==
    LET a == generate_id(g.next_id)
        node_id == a.id
    IN  << [g EXCEPT !.next_id = a.next_id,
                     !.nodes = map_insert(g.nodes, node_id, AsgNode(node_id, ty, content))],
           node_id >>

\* AsgGraph::set_root: <<graph after the call, Result>>
set_root(g, node_id) ==
    IF ~contains_node(g.nodes, node_id)
    THEN << g, <<"Err", "NodeNotFound", node_id>> >>
    ELSE << [g EXCEPT !.root_id = Some(node_id)], <<"Ok">> >>

\* a removal that forgets the root
remove_node_keeps_root(root, node_id) == root

\* the root after remove_node(node_id): unset if it was the removed node
remove_node_root(root, node_id) ==
    IF root = Some(node_id) THEN None ELSE root

\* AsgGraph::remove_node: <<graph after the call, Option<AsgNode>>>
remove_node(g, node_id) ==
    << [g EXCEPT !.root_id = remove_node_root(g.root_id, node_id),
                 !.nodes = map_remove(g.nodes, node_id)],
       IF contains_node(g.nodes, node_id) THEN Some(g.nodes[node_id]) ELSE None >>

\* AsgGraph::get_node_mut, and the caller writing through the reference it
\* gets: node is the value the caller leaves in the borrowed AsgNode, whose
\* fields node_id, type and content are all public
get_node_mut(g, node_id, node) ==
    IF contains_node(g.nodes, node_id)
    THEN [g EXCEPT !.nodes = map_insert(g.nodes, node_id, node)]
    ELSE g

\* all orders in which a HashMap may yield the elements of S
RECURSIVE Orders(_)
Orders(S) ==
    IF S = {} THEN { <<>> }
    ELSE UNION { { <<x>> \o p : p \in Orders(S \ {x}) } : x \in S }

\* AsgGraph::into_proto; order is the iteration order of the HashMap
into_proto(g, order) ==
    [ nodes |-> [i \in 1..Len(order) |-> g.nodes[order[i]]],
      root_node_id |-> IF g.root_id = None THEN 0 ELSE g.root_id[1] ]

\* the counter after from_proto has seen node_id, before any wrap-around
from_proto_next_id(next, node_id) ==
    IF node_id >= next THEN node_id + 1 ELSE next

\* the loop of from_proto over proto.nodes[i..]; oc = overflow checks are on.
\* node_id + 1 overflows for node_id = u64::MAX: a panic with overflow checks,
\* a wrap to 0 without.
RECURSIVE from_proto_loop(_, _, _, _)
from_proto_loop(g, pnodes, i, oc) ==
    IF i > Len(pnodes) THEN [graph |-> g, panic |-> FALSE]
    ELSE LET node == pnodes[i]
             node_id == node.node_id
             bumped == from_proto_next_id(g.next_id, node_id)
         IN  IF bumped > U64Max /\ oc
             THEN [graph |-> g, panic |-> TRUE]
             ELSE from_proto_loop(
                      [g EXCEPT !.next_id = bumped % U64Modulus,
                                !.nodes = map_insert(g.nodes, node_id, node)],
                      pnodes, i + 1, oc)

\* the root from_proto leaves on the rebuilt graph
from_proto_root(ns, root_node_id) ==
    IF root_node_id # 0 /\ contains_node(ns, root_node_id)
    THEN Some(root_node_id) ELSE None

\* AsgGraph::from_proto
from_proto(proto, oc) ==
    LET r == from_proto_loop(new_graph, proto.nodes, 1, oc)
    IN  IF r.panic THEN r
        ELSE [graph |-> [r.graph EXCEPT
                            !.root_id = from_proto_root(r.graph.nodes, proto.root_node_id)],
              panic |-> FALSE]

-----------------------------------------------------------------------------
(* Canonical hashing: asg_core/src/hash.rs                                 *)

\* BLAKE3, taken as collision-free: a digest is determined by, and determines,
\* the byte string that was hashed
blake3(bytes) == [digest_of |-> bytes]

\* u64::to_le_bytes / i64::to_le_bytes, for 0 <= v < 2^31
to_le_bytes(v) ==
    << v % 256, (v \div 256) % 256, (v \div 65536) % 256, (v \div 16777216) % 256,
       0, 0, 0, 0 >>

\* u32::to_le_bytes
to_le_bytes_u32(v) ==
    << v % 256, (v \div 256) % 256, (v \div 65536) % 256, (v \div 16777216) % 256 >>

\* the bytes of a list of ids, each as 8 little-endian bytes, one after the other
RECURSIVE ids_bytes(_)
ids_bytes(ids) ==
    IF ids = <<>> THEN <<>> ELSE to_le_bytes(Head(ids)) \o ids_bytes(Tail(ids))

\* b"LiteralInt", b"LiteralBool"
ascii_LiteralInt == <<76, 105, 116, 101, 114, 97, 108, 73, 110, 116>>
ascii_LiteralBool == <<76, 105, 116, 101, 114, 97, 108, 66, 111, 111, 108>>

\* the other variant markers, as bytes
ascii ==
    [ TermVariable    |-> <<84, 101, 114, 109, 86, 97, 114, 105, 97, 98, 108, 101>>,
      TermLambda      |-> <<84, 101, 114, 109, 76, 97, 109, 98, 100, 97>>,
      TermApplication |-> <<84, 101, 114, 109, 65, 112, 112, 108, 105, 99, 97, 116,
                            105, 111, 110>>,
      PrimitiveOp     |-> <<80, 114, 105, 109, 105, 116, 105, 118, 101, 79, 112>>,
      TermRef         |-> <<84, 101, 114, 109, 82, 101, 102>>,
      TermDeref       |-> <<84, 101, 114, 109, 68, 101, 114, 101, 102>>,
      TermAssign      |-> <<84, 101, 114, 109, 65, 115, 115, 105, 103, 110>>,
      EffectPerform   |-> <<69, 102, 102, 101, 99, 116, 80, 101, 114, 102, 111, 114, 109>>,
      Metadata        |-> <<77, 101, 116, 97, 100, 97, 116, 97>> ]

\* the bytes canonicalize_node feeds for a Metadata payload: the target id, the
\* source location if present, the annotation ids
metadata_bytes(m) ==
    to_le_bytes(m.node_id)
    \o (IF m.source_location = None THEN <<>>
        ELSE LET loc == m.source_location[1]
             IN  loc.filename
                 \o to_le_bytes_u32(loc.start_line) \o to_le_bytes_u32(loc.start_col)
                 \o to_le_bytes_u32(loc.end_line) \o to_le_bytes_u32(loc.end_col))
    \o ids_bytes(m.annotation_ids)

\* canonicalize_node: the digest of the type byte, the variant marker and the
\* fields; a string is its bytes, and the node's own id is not fed.  (The
\* ProofObligation and TypeNode arms are not modelled: no graph here holds one.)
canonicalize_node(node) ==
    LET c == node.content
        payload ==
            CASE c.variant = "LiteralInt" -> ascii_LiteralInt \o to_le_bytes(c.value)
              [] c.variant = "LiteralBool" -> ascii_LiteralBool \o <<c.value>>
              [] c.variant = "TermVariable" ->
                    ascii.TermVariable \o c.name \o to_le_bytes(c.definition_node_id)
              [] c.variant = "TermLambda" ->
                    ascii.TermLambda \o to_le_bytes(c.binder_variable_node_id)
                    \o to_le_bytes(c.body_node_id) \o to_le_bytes(c.type_annotation_id)
              [] c.variant = "TermApplication" ->
                    ascii.TermApplication \o to_le_bytes(c.function_node_id)
                    \o to_le_bytes(c.argument_node_id)
              [] c.variant = "PrimitiveOp" ->
                    ascii.PrimitiveOp \o c.op_name \o ids_bytes(c.argument_node_ids)
              [] c.variant = "TermRef" ->
                    ascii.TermRef \o to_le_bytes(c.init_value_node_id)
              [] c.variant = "TermDeref" ->
                    ascii.TermDeref \o to_le_bytes(c.ref_node_id)
              [] c.variant = "TermAssign" ->
                    ascii.TermAssign \o to_le_bytes(c.ref_node_id)
                    \o to_le_bytes(c.value_node_id)
              [] c.variant = "EffectPerform" ->
                    ascii.EffectPerform \o c.effect_name \o to_le_bytes(c.value_node_id)
              [] c.variant = "Metadata" -> ascii.Metadata \o metadata_bytes(c)
    IN  blake3(<<node.type % 256>> \o payload)

hash_node(node) == blake3(canonicalize_node(node))

\* a sort that leaves the list as it was handed in
sort_keeps_order(ids) == ids

\* node_ids.sort(): ascending order
RECURSIVE sort(_)
sort(ids) ==
    IF ids = <<>> THEN <<>>
    ELSE LET i == CHOOSE i \in 1..Len(ids) : \A j \in 1..Len(ids) : ids[i] <= ids[j]
         IN  <<ids[i]>> \o sort(SubSeq(ids, 1, i - 1) \o SubSeq(ids, i + 1, Len(ids)))

\* hash_graph; keys is the order in which the HashMap yields its keys.  The
\* digests are 32 bytes each and the root id 8, so the bytes fed to the hasher
\* determine the list of digests and the root.
hash_graph(g, keys) ==
    LET node_ids == sort(keys)
        digests == [i \in 1..Len(node_ids) |-> hash_node(g.nodes[node_ids[i]])]
    IN  blake3(<<digests, IF g.root_id = None THEN <<>> ELSE to_le_bytes(g.root_id[1])>>)

-----------------------------------------------------------------------------
(* Graph store: the state machine                                          *)

otherVars == <<unifyVars, l1Vars, l2Vars, lintVars, lowerVars, hashVars, uartVars>>

graph == [nodes |-> nodes, next_id |-> next_id, root_id |-> root_id]

\* ids a caller may pass to set_root / remove_node
CallIds == ProtoIds \cup 1..MaxInserts

\* messages a caller may hand to from_proto
ProtoNodes == { AsgNode(id, c[1], c[2]) : id \in ProtoIds, c \in StoreContents }
ProtoMessages ==
    { [nodes |-> ns, root_node_id |-> r] :
        ns \in UNION { [1..n -> ProtoNodes] : n \in 0..MaxProtoNodes },
        r \in ProtoIds }

InitGraph ==
    /\ nodes = new_graph.nodes
    /\ next_id = new_graph.next_id
    /\ root_id = new_graph.root_id
    /\ overflow_checks \in BOOLEAN
    /\ panicked = FALSE
    /\ issued = <<>>
    /\ built = "new"
    /\ loaded = <<{}, 0>>
    /\ rt = <<>>

AddNode ==
    /\ ~panicked
    /\ Len(issued) < MaxInserts
    /\ \E c \in AddContents :
         LET r == add_node(graph, c[1], c[2])
         IN  /\ nodes' = r[1].nodes
             /\ next_id' = r[1].next_id
             /\ root_id' = r[1].root_id
             /\ issued' = Append(issued, r[2])
    /\ rt' = <<>>
    /\ UNCHANGED <<overflow_checks, panicked, built, loaded>>
    /\ UNCHANGED otherVars

SetRoot ==
    /\ ~panicked
    /\ \E id \in CallIds :
         LET r == set_root(graph, id)
         IN  /\ nodes' = r[1].nodes
             /\ next_id' = r[1].next_id
             /\ root_id' = r[1].root_id
    /\ rt' = <<>>
    /\ UNCHANGED <<overflow_checks, panicked, issued, built, loaded>>
    /\ UNCHANGED otherVars

RemoveNode ==
    /\ ~panicked
    /\ \E id \in CallIds :
         LET r == remove_node(graph, id)
         IN  /\ nodes' = r[1].nodes
             /\ next_id' = r[1].next_id
             /\ root_id' = r[1].root_id
    /\ rt' = <<>>
    /\ UNCHANGED <<overflow_checks, panicked, issued, built, loaded>>
    /\ UNCHANGED otherVars

\* get_node_mut(id) followed by a write to the node
GetNodeMut ==
    /\ ~panicked
    /\ \E id \in CallIds, node \in ProtoNodes :
         nodes' = get_node_mut(graph, id, node).nodes
    /\ rt' = <<>>
    /\ UNCHANGED <<next_id, root_id, overflow_checks, panicked, issued, built, loaded>>
    /\ UNCHANGED otherVars

\* the state after AsgGraph::from_proto(proto) has replaced the graph
Restore(proto) ==
    LET r == from_proto(proto, overflow_checks)
    IN  IF r.panic
        THEN /\ panicked' = TRUE
             /\ UNCHANGED <<nodes, next_id, root_id, built, loaded>>
        ELSE /\ nodes' = r.graph.nodes
             /\ next_id' = r.graph.next_id
             /\ root_id' = r.graph.root_id
             /\ built' = "proto"
             /\ loaded' = <<DOMAIN r.graph.nodes, Len(issued)>>
             /\ UNCHANGED panicked

\* from_proto is a constructor: it starts the life of a graph, as new() does
FromProto ==
    /\ ~panicked
    /\ built = "new" /\ issued = <<>>
    /\ \E proto \in ProtoMessages : Restore(proto)
    /\ rt' = <<>>
    /\ UNCHANGED <<overflow_checks, issued>>
    /\ UNCHANGED otherVars

\* load_asg_binary(save_asg_binary(g)): into_proto, encode, decode, from_proto
SaveLoad ==
    /\ ~panicked
    /\ \E order \in Orders(DOMAIN nodes) :
         LET proto == into_proto(graph, order)
             r == from_proto(proto, overflow_checks)
         IN  /\ Restore(proto)
             /\ rt' = IF r.panic THEN <<>>
                      ELSE << graph.root_id, hash_graph(graph, order) >>
    /\ UNCHANGED <<overflow_checks, issued>>
    /\ UNCHANGED otherVars


-----------------------------------------------------------------------------
(* Level-1 types and unifier: type_checker_l1/src/types.rs, unification.rs *)

\* number of unification variables the unifier's inputs range over
NumTypeVars == 2
\* number of unify calls made on one substitution
MaxUnifyCalls == 2

\* enum Type
T_Int == <<"Int">>
T_Bool == <<"Bool">>
T_Function(a, b) == <<"Function", a, b>>
T_Ref(t) == <<"Ref", t>>
T_Var(v) == <<"Var", v>>

IsVar(t) == t[1] = "Var"
IsFunction(t) == t[1] = "Function"
IsRef(t) == t[1] = "Ref"

\* HashMap::get(..).is_some()
bound(subst, v) == v \in DOMAIN subst

\* Type::apply: a variable is replaced by its binding, which is not applied to again
RECURSIVE apply(_, _)
apply(t, subst) ==
    CASE IsVar(t) -> IF bound(subst, t[2]) THEN subst[t[2]] ELSE t
      [] IsFunction(t) -> T_Function(apply(t[2], subst), apply(t[3], subst))
      [] IsRef(t) -> T_Ref(apply(t[2], subst))
      [] OTHER -> t

\* an occurs check that never finds the variable
occurs_check_never(var, t, subst) == FALSE

\* occurs_check: does var occur in t, following the bindings of subst
RECURSIVE occurs_check(_, _, _)
occurs_check(var, t, subst) ==
    CASE IsVar(t) ->
            IF t[2] = var THEN TRUE
            ELSE IF bound(subst, t[2]) THEN occurs_check(var, subst[t[2]], subst)
            ELSE FALSE
      [] IsFunction(t) -> occurs_check(var, t[2], subst) \/ occurs_check(var, t[3], subst)
      [] IsRef(t) -> occurs_check(var, t[2], subst)
      [] OTHER -> FALSE

\* Result<()> together with the substitution the call leaves behind
U_Ok(subst) == [ok |-> TRUE, err |-> None, subst |-> subst]
U_Err(e, subst) == [ok |-> FALSE, err |-> e, subst |-> subst]

\* bind_var
bind_var(var, t, subst) ==
    IF IsVar(t) /\ t[2] = var THEN U_Ok(subst)
    ELSE IF occurs_check(var, t, subst) THEN U_Err(<<"OccursCheck">>, subst)
    ELSE U_Ok(map_insert(subst, var, t))

\* unify: the arms of the match in source order
RECURSIVE unify(_, _, _)
unify(t1, t2, subst) ==
    CASE (t1 = T_Int /\ t2 = T_Int) \/ (t1 = T_Bool /\ t2 = T_Bool) -> U_Ok(subst)
      [] IsRef(t1) /\ IsRef(t2) -> unify(t1[2], t2[2], subst)
      [] IsFunction(t1) /\ IsFunction(t2) ->
            LET r == unify(t1[2], t2[2], subst)
            IN  IF r.ok THEN unify(t1[3], t2[3], r.subst) ELSE r
      [] IsVar(t1) -> bind_var(t1[2], t2, subst)
      [] ~IsVar(t1) /\ IsVar(t2) -> bind_var(t2[2], t1, subst)
      [] OTHER -> U_Err(<<"UnificationFail", t1, t2>>, subst)

\* the types handed to unify: atoms, and one constructor over atoms
TypeAtoms == {T_Int, T_Bool} \cup { T_Var(v) : v \in 0..(NumTypeVars - 1) }
UnifyTypes ==
    TypeAtoms \cup { T_Function(a, b) : a \in TypeAtoms, b \in TypeAtoms }
              \cup { T_Ref(a) : a \in TypeAtoms }
              \cup { T_Function(T_Function(T_Var(0), T_Int), T_Var(1)) }

InitUnify ==
    /\ u_a = None
    /\ u_b = None
    /\ u_subst = EmptyMap
    /\ u_log = [calls |-> 0, ok |-> TRUE, err |-> None, before |-> EmptyMap]

\* the state after one call unify(&a, &b, &mut subst)
UnifyCall(a, b) ==
    LET r == unify(a, b, u_subst)
    IN  /\ u_a' = a
        /\ u_b' = b
        /\ u_subst' = r.subst
        /\ u_log' = [calls |-> u_log.calls + 1, ok |-> r.ok, err |-> r.err,
                     before |-> u_subst]

\* one call of unify on any two types; a caller stops at the first Err
Unify ==
    /\ u_log.ok
    /\ u_log.calls < MaxUnifyCalls
    /\ \E a \in UnifyTypes, b \in UnifyTypes : UnifyCall(a, b)
    /\ UNCHANGED <<graphVars, l1Vars, l2Vars, lintVars, lowerVars, hashVars, uartVars>>

\* one call of unify with a type variable on the left
UnifyVarLeft ==
    /\ u_log.ok
    /\ u_log.calls < MaxUnifyCalls
    /\ \E v \in 0..(NumTypeVars - 1), t \in UnifyTypes : UnifyCall(T_Var(v), t)
    /\ UNCHANGED <<graphVars, l1Vars, l2Vars, lintVars, lowerVars, hashVars, uartVars>>

\* one call of unify with a type variable on the right
UnifyVarRight ==
    /\ u_log.ok
    /\ u_log.calls < MaxUnifyCalls
    /\ \E v \in 0..(NumTypeVars - 1), t \in UnifyTypes : UnifyCall(t, T_Var(v))
    /\ UNCHANGED <<graphVars, l1Vars, l2Vars, lintVars, lowerVars, hashVars, uartVars>>

-----------------------------------------------------------------------------
(* Level-1 checker: type_checker_l1/src/inference.rs, lib.rs               *)

\* Result<Type> of infer, with the substitution and the fresh counter it leaves
I_Ok(ty, subst, fresh) == [ok |-> TRUE, ty |-> ty, err |-> None, subst |-> subst, fresh |-> fresh]
I_Err(e, subst, fresh) == [ok |-> FALSE, ty |-> None, err |-> e, subst |-> subst, fresh |-> fresh]

TypeScheme(vs, body) == [vars |-> vs, body |-> body]

\* instantiate: a fresh variable for each quantified variable, then Type::apply
RECURSIVE instantiate_subst(_, _, _, _)
instantiate_subst(vs, i, fresh, acc) ==
    IF i > Len(vs) THEN [subst |-> acc, fresh |-> fresh]
    ELSE instantiate_subst(vs, i + 1, fresh + 1, map_insert(acc, vs[i], T_Var(fresh)))

instantiate(ts, fresh) ==
    LET r == instantiate_subst(ts.vars, 1, fresh, EmptyMap)
    IN  [ty |-> apply(ts.body, r.subst), fresh |-> r.fresh]

\* TypingContext::new
TypingContext_new == EmptyMap

\* TypingContext::lookup
lookup(bindings, node_id, subst, fresh) ==
    IF node_id \notin DOMAIN bindings
    THEN I_Err(<<"UndefinedVariable", node_id>>, subst, fresh)
    ELSE LET r == instantiate(bindings[node_id], fresh)
         IN  I_Ok(r.ty, subst, r.fresh)

\* TypingContext::extend
extend(bindings, node_id, ts) == map_insert(bindings, node_id, ts)

\* the operands of the unify call the other way round
primop_unify_swapped(arg_ty, subst) == unify(T_Int, arg_ty, subst)

\* unify(&arg_ty, &Type::Int, subst) of the arithmetic primitives
primop_unify(arg_ty, subst) == unify(arg_ty, T_Int, subst)

ArithOps == {"+", "-", "*", "/"}

\* infer
RECURSIVE infer(_, _, _, _, _)
infer(context, node_id, g, subst, fresh) ==
    IF node_id \notin DOMAIN g.nodes
    THEN I_Err(<<"UndefinedVariable", node_id>>, subst, fresh)
    ELSE
    LET node == g.nodes[node_id] IN
    CASE node.type_ = "LiteralInt" -> I_Ok(T_Int, subst, fresh)
      [] node.type_ = "LiteralBool" -> I_Ok(T_Bool, subst, fresh)
      [] node.type_ = "TermVariable" ->
            IF node.term_variable # None
            THEN lookup(context, node.term_variable[1].definition_node_id, subst, fresh)
            ELSE I_Err(<<"UndefinedVariable", node_id>>, subst, fresh)
      [] node.type_ = "TermLambda" ->
            IF node.term_lambda # None
            THEN LET lambda == node.term_lambda[1]
                     param_ty == T_Var(fresh)
                     new_ctx == extend(context, lambda.binder_variable_node_id,
                                       TypeScheme(<<>>, param_ty))
                     body == infer(new_ctx, lambda.body_node_id, g, subst, fresh + 1)
                 IN  IF body.ok
                     THEN I_Ok(T_Function(param_ty, body.ty), body.subst, body.fresh)
                     ELSE body
            ELSE I_Err(<<"Unimplemented">>, subst, fresh)
      [] node.type_ = "TermApplication" ->
            IF node.term_application # None
            THEN LET app == node.term_application[1]
                     func == infer(context, app.function_node_id, g, subst, fresh)
                 IN  IF ~func.ok THEN func ELSE
                     LET arg == infer(context, app.argument_node_id, g, func.subst, func.fresh)
                     IN  IF ~arg.ok THEN arg ELSE
                         LET res_ty == T_Var(arg.fresh)
                             u == unify(func.ty, T_Function(arg.ty, res_ty), arg.subst)
                         IN  IF u.ok
                             THEN I_Ok(apply(res_ty, u.subst), u.subst, arg.fresh + 1)
                             ELSE I_Err(u.err, u.subst, arg.fresh + 1)
            ELSE I_Err(<<"Unimplemented">>, subst, fresh)
      [] node.type_ = "PrimitiveOp" ->
            IF node.primitive_op # None
            THEN LET op == node.primitive_op[1] IN
                 IF op.op_name \in ArithOps
                 THEN IF Len(op.argument_node_ids) # 2
                      THEN I_Err(<<"Unimplemented">>, subst, fresh)
                      ELSE
                      LET lhs == infer(context, op.argument_node_ids[1], g, subst, fresh)
                      IN  IF ~lhs.ok THEN lhs ELSE
                          LET rhs == infer(context, op.argument_node_ids[2], g, lhs.subst, lhs.fresh)
                          IN  IF ~rhs.ok THEN rhs ELSE
                              LET u1 == primop_unify(lhs.ty, rhs.subst)
                              IN  IF ~u1.ok THEN I_Err(u1.err, u1.subst, rhs.fresh) ELSE
                                  LET u2 == primop_unify(rhs.ty, u1.subst)
                                  IN  IF ~u2.ok THEN I_Err(u2.err, u2.subst, rhs.fresh)
                                      ELSE I_Ok(T_Int, u2.subst, rhs.fresh)
                 ELSE I_Err(<<"Unimplemented">>, subst, fresh)
            ELSE I_Err(<<"Unimplemented">>, subst, fresh)
      [] node.type_ = "TermRef" ->
            IF node.term_ref # None
            THEN LET val == infer(context, node.term_ref[1].init_value_node_id, g, subst, fresh)
                 IN  IF val.ok THEN I_Ok(T_Ref(val.ty), val.subst, val.fresh) ELSE val
            ELSE I_Err(<<"Unimplemented">>, subst, fresh)
      [] node.type_ = "TermDeref" ->
            IF node.term_deref # None
            THEN LET r == infer(context, node.term_deref[1].ref_node_id, g, subst, fresh)
                 IN  IF ~r.ok THEN r
                     ELSE IF IsRef(r.ty) THEN I_Ok(r.ty[2], r.subst, r.fresh)
                     ELSE I_Err(<<"ApplicationMismatch", node_id>>, r.subst, r.fresh)
            ELSE I_Err(<<"Unimplemented">>, subst, fresh)
      [] node.type_ = "TermAssign" ->
            IF node.term_assign # None
            THEN LET assign == node.term_assign[1]
                     r == infer(context, assign.ref_node_id, g, subst, fresh)
                 IN  IF ~r.ok THEN r ELSE
                     LET v == infer(context, assign.value_node_id, g, r.subst, r.fresh)
                     IN  IF ~v.ok THEN v
                         ELSE IF IsRef(r.ty)
                         THEN LET u == unify(r.ty[2], v.ty, v.subst)
                              IN  IF u.ok THEN I_Ok(T_Bool, u.subst, v.fresh)
                                  ELSE I_Err(u.err, u.subst, v.fresh)
                         ELSE I_Err(<<"ApplicationMismatch", node_id>>, v.subst, v.fresh)
            ELSE I_Err(<<"Unimplemented">>, subst, fresh)
      [] OTHER -> I_Err(<<"Unimplemented">>, subst, fresh)

\* NodeChildren::all_child_node_ids
all_child_node_ids(node) ==
    CASE node.type_ = "TermVariable" ->
            IF node.term_variable # None
            THEN <<node.term_variable[1].definition_node_id>> ELSE <<>>
      [] node.type_ = "TermLambda" ->
            IF node.term_lambda # None
            THEN LET lambda == node.term_lambda[1]
                 IN  <<lambda.binder_variable_node_id, lambda.body_node_id>>
                     \o lambda.type_annotation_id
            ELSE <<>>
      [] node.type_ = "TermApplication" ->
            IF node.term_application # None
            THEN <<node.term_application[1].function_node_id,
                   node.term_application[1].argument_node_id>>
            ELSE <<>>
      [] node.type_ = "TermRef" ->
            IF node.term_ref # None THEN <<node.term_ref[1].init_value_node_id>> ELSE <<>>
      [] node.type_ = "TermDeref" ->
            IF node.term_deref # None THEN <<node.term_deref[1].ref_node_id>> ELSE <<>>
      [] node.type_ = "TermAssign" ->
            IF node.term_assign # None
            THEN <<node.term_assign[1].ref_node_id, node.term_assign[1].value_node_id>>
            ELSE <<>>
      [] node.type_ = "PrimitiveOp" ->
            IF node.primitive_op # None THEN node.primitive_op[1].argument_node_ids ELSE <<>>
      [] OTHER -> <<>>

\* the while loop of check_and_annotate_graph: the stack is popped at its end;
\* subst is the local SubstitutionMap as the call leaves it
RECURSIVE check_loop(_, _, _, _, _, _)
check_loop(g, stack, visited, inferred_types, subst, fresh) ==
    IF stack = <<>>
    THEN [ok |-> TRUE, types |-> inferred_types, err |-> None, subst |-> subst]
    ELSE LET nid == stack[Len(stack)]
             rest == SubSeq(stack, 1, Len(stack) - 1)
         IN  IF nid \in visited
             THEN check_loop(g, rest, visited, inferred_types, subst, fresh)
             ELSE LET r == infer(TypingContext_new, nid, g, subst, fresh)
                  IN  IF ~r.ok
                      THEN [ok |-> FALSE, types |-> EmptyMap, err |-> r.err,
                            subst |-> r.subst]
                      ELSE check_loop(g,
                                      rest \o (IF nid \in DOMAIN g.nodes
                                               THEN all_child_node_ids(g.nodes[nid])
                                               ELSE <<>>),
                                      visited \cup {nid},
                                      map_insert(inferred_types, nid, r.ty),
                                      r.subst, r.fresh)

\* check_and_annotate_graph
check_and_annotate_graph(g) ==
    check_loop(g, <<g.root_node_id>>, {}, EmptyMap, EmptyMap, 0)

\* the node ids on which infer runs during infer(context, node_id, ...), in
\* call order: the node itself, then the nodes its rule descends into, each
\* descent made only if the ones before it returned Ok
RECURSIVE infer_calls(_, _, _, _, _)
infer_calls(context, node_id, g, subst, fresh) ==
    IF node_id \notin DOMAIN g.nodes THEN <<node_id>> ELSE
    LET node == g.nodes[node_id]
        \* two descents, the second with the substitution and counter of the first
        both(a, b) ==
            LET first == infer(context, a, g, subst, fresh)
            IN  infer_calls(context, a, g, subst, fresh)
                \o (IF first.ok
                    THEN infer_calls(context, b, g, first.subst, first.fresh)
                    ELSE <<>>)
    IN  <<node_id>> \o
        CASE node.type_ = "TermLambda" /\ node.term_lambda # None ->
                LET lambda == node.term_lambda[1]
                IN  infer_calls(extend(context, lambda.binder_variable_node_id,
                                       TypeScheme(<<>>, T_Var(fresh))),
                                lambda.body_node_id, g, subst, fresh + 1)
          [] node.type_ = "TermApplication" /\ node.term_application # None ->
                both(node.term_application[1].function_node_id,
                     node.term_application[1].argument_node_id)
          [] /\ node.type_ = "PrimitiveOp" /\ node.primitive_op # None
             /\ node.primitive_op[1].op_name \in ArithOps
             /\ Len(node.primitive_op[1].argument_node_ids) = 2 ->
                both(node.primitive_op[1].argument_node_ids[1],
                     node.primitive_op[1].argument_node_ids[2])
          [] node.type_ = "TermRef" /\ node.term_ref # None ->
                infer_calls(context, node.term_ref[1].init_value_node_id, g, subst, fresh)
          [] node.type_ = "TermDeref" /\ node.term_deref # None ->
                infer_calls(context, node.term_deref[1].ref_node_id, g, subst, fresh)
          [] node.type_ = "TermAssign" /\ node.term_assign # None ->
                both(node.term_assign[1].ref_node_id, node.term_assign[1].value_node_id)
          [] OTHER -> <<>>

\* the node ids on which infer runs during the while loop of
\* check_and_annotate_graph, in call order
RECURSIVE check_loop_calls(_, _, _, _, _)
check_loop_calls(g, stack, visited, subst, fresh) ==
    IF stack = <<>> THEN <<>>
    ELSE LET nid == stack[Len(stack)]
             rest == SubSeq(stack, 1, Len(stack) - 1)
         IN  IF nid \in visited
             THEN check_loop_calls(g, rest, visited, subst, fresh)
             ELSE LET r == infer(TypingContext_new, nid, g, subst, fresh)
                  IN  infer_calls(TypingContext_new, nid, g, subst, fresh)
                      \o (IF ~r.ok THEN <<>>
                          ELSE check_loop_calls(g,
                                   rest \o (IF nid \in DOMAIN g.nodes
                                            THEN all_child_node_ids(g.nodes[nid])
                                            ELSE <<>>),
                                   visited \cup {nid}, r.subst, r.fresh))

check_and_annotate_graph_calls(g) ==
    check_loop_calls(g, <<g.root_node_id>>, {}, EmptyMap, 0)

\* Graphs handed to the Level-1 checker: two leaf nodes (ids 1 and 2) and a
\* root (id 3) over them.
N_LitInt(v) == [type_ |-> "LiteralInt", value |-> v]
N_LitBool(v) == [type_ |-> "LiteralBool", value |-> v]
N_Var(name, def) ==
    [type_ |-> "TermVariable",
     term_variable |-> Some([name |-> name, definition_node_id |-> def])]
N_TypeInt == [type_ |-> "TypeNode", type_kind |-> "Int"]
N_Lambda(binder, body, annot) ==
    [type_ |-> "TermLambda",
     term_lambda |-> Some([binder_variable_node_id |-> binder, body_node_id |-> body,
                           type_annotation_id |-> annot])]
N_App(f, a) ==
    [type_ |-> "TermApplication",
     term_application |-> Some([function_node_id |-> f, argument_node_id |-> a])]
N_PrimOp(name, args) ==
    [type_ |-> "PrimitiveOp",
     primitive_op |-> Some([op_name |-> name, argument_node_ids |-> args])]
N_Ref(v) == [type_ |-> "TermRef", term_ref |-> Some([init_value_node_id |-> v])]
N_Deref(r) == [type_ |-> "TermDeref", term_deref |-> Some([ref_node_id |-> r])]
N_Assign(r, v) ==
    [type_ |-> "TermAssign", term_assign |-> Some([ref_node_id |-> r, value_node_id |-> v])]

L1Leaves ==
    { N_LitInt(1), N_LitBool(1), N_TypeInt }
    \cup { N_Var("x", d) : d \in {0, 1, 3} }
L1Roots ==
    { N_Lambda(1, b, a) : b \in {1, 2}, a \in {None, Some(2)} }
    \cup { N_PrimOp("+", <<a, b>>) : a \in {1, 2}, b \in {1, 2} }
    \cup { N_PrimOp("==", <<1, 2>>), N_PrimOp("+", <<1>>),
           N_App(1, 2), N_Ref(1), N_Deref(1), N_Assign(1, 2) }
L1Graphs ==
    { [nodes |-> (1 :> n1) @@ (2 :> n2) @@ (3 :> r), root_node_id |-> 3] :
        n1 \in L1Leaves, n2 \in L1Leaves, r \in L1Roots }

\* \x:Int. +(x, 1): the variable x (node 1, pointing at itself or at the
\* lambda), the literal 1, the sum, the lambda (root) and its annotation
L1AddOne ==
    { [nodes |-> (1 :> N_Var("x", d)) @@ (2 :> N_LitInt(1))
                 @@ (3 :> N_PrimOp("+", <<1, 2>>))
                 @@ (4 :> N_Lambda(1, 3, Some(5))) @@ (5 :> N_TypeInt),
       root_node_id |-> 4] : d \in {1, 4} }

\* a literal (node 1), a reference cell holding it (node 2), an assignment of
\* the literal to the cell (node 3) and a read of the cell (node 4)
L1Cells ==
    { [nodes |-> (1 :> lit) @@ (2 :> N_Ref(1)) @@ (3 :> N_Assign(2, 1))
                 @@ (4 :> N_Deref(2)),
       root_node_id |-> r] : lit \in {N_LitInt(1), N_LitBool(1)}, r \in {3, 4} }

\* \p. !p: the variable p (node 1, pointing at itself or at the lambda), the
\* read of p (node 2) and the lambda (root)
L1DerefParam ==
    { [nodes |-> (1 :> N_Var("p", d)) @@ (2 :> N_Deref(1)) @@ (3 :> N_Lambda(1, 2, None)),
       root_node_id |-> 3] : d \in {1, 3} }

InitL1 ==
    /\ l1_graph \in L1Graphs \cup L1AddOne \cup L1Cells \cup L1DerefParam
    /\ l1_out = None
    /\ l1_calls = <<>>

\* check_and_annotate_graph(&mut graph)
CheckL1 ==
    /\ l1_out = None
    /\ l1_out' = Some(check_and_annotate_graph(l1_graph))
    /\ l1_calls' = check_and_annotate_graph_calls(l1_graph)
    /\ UNCHANGED <<l1_graph, graphVars, unifyVars, l2Vars, lintVars, lowerVars, hashVars, uartVars>>

-----------------------------------------------------------------------------
(* Level-2 checker: type_checker_l2/src/inference.rs, lib.rs               *)

T_ADT(name, args) == <<"ADT", name, args>>

L2_Ok(ty, ctx) == [ok |-> TRUE, ty |-> ty, err |-> None, ctx |-> ctx]
L2_Err(e, ctx) == [ok |-> FALSE, ty |-> None, err |-> e, ctx |-> ctx]

\* TypeContext::new; only the datatypes table is used by the ADT rules
TypeContext_new == [datatypes |-> EmptyMap]

\* the arms of the Level-2 infer for DataDef, DataCtor and DataMatch; the graphs
\* below hold no TypeAbs or TypeApp node, every other kind is Unimplemented.
RECURSIVE infer_l2(_, _, _)
RECURSIVE infer_l2_fields(_, _, _, _)
RECURSIVE infer_l2_ctors(_, _, _, _)
RECURSIVE infer_l2_arms(_, _, _, _, _)

\* field_type_node_ids.map(|nid| infer(ctx, nid, graph).unwrap_or(Type::Var(nid)))
infer_l2_fields(ctx, ids, i, g) ==
    IF i > Len(ids) THEN [types |-> <<>>, ctx |-> ctx]
    ELSE LET r == infer_l2(ctx, ids[i], g)
             rest == infer_l2_fields(r.ctx, ids, i + 1, g)
         IN  [types |-> <<IF r.ok THEN r.ty ELSE T_Var(ids[i])>> \o rest.types,
              ctx |-> rest.ctx]

infer_l2_ctors(ctx, defs, i, g) ==
    IF i > Len(defs) THEN [ctors |-> <<>>, ctx |-> ctx]
    ELSE LET f == infer_l2_fields(ctx, defs[i].field_type_node_ids, 1, g)
             rest == infer_l2_ctors(f.ctx, defs, i + 1, g)
         IN  [ctors |-> <<[name |-> defs[i].name, field_types |-> f.types]>> \o rest.ctors,
              ctx |-> rest.ctx]

\* the loop over dm.arms: all arm bodies must have the same type
infer_l2_arms(ctx, arms, i, res_type, g) ==
    IF i > Len(arms)
    THEN IF res_type = None THEN L2_Err(<<"Unimplemented">>, ctx)
         ELSE L2_Ok(res_type[1], ctx)
    ELSE LET arm == infer_l2(ctx, arms[i].body_node_id, g)
         IN  IF ~arm.ok THEN arm
             ELSE IF res_type # None /\ res_type[1] # arm.ty
             THEN L2_Err(<<"UnificationFail", res_type[1], arm.ty>>, arm.ctx)
             ELSE infer_l2_arms(arm.ctx, arms, i + 1,
                                IF res_type = None THEN Some(arm.ty) ELSE res_type, g)

\* ctors.iter().find(|c| c.name == name): the first index with that name, 0 if none
find_ctor(ctors, name) ==
    IF \E k \in 1..Len(ctors) : ctors[k].name = name
    THEN CHOOSE k \in 1..Len(ctors) :
            /\ ctors[k].name = name
            /\ \A j \in 1..(k - 1) : ctors[j].name # name
    ELSE 0

\* the graphs below register one datatype, so the first datatype holding the
\* constructor is the only one
infer_l2(ctx, node_id, g) ==
    IF node_id \notin DOMAIN g.nodes
    THEN L2_Err(<<"UndefinedVariable", node_id>>, ctx)
    ELSE
    LET node == g.nodes[node_id] IN
    CASE node.type_ = "DataDef" ->
            IF node.data_def = None THEN L2_Err(<<"Unimplemented">>, ctx)
            ELSE LET dd == node.data_def[1]
                     c == infer_l2_ctors(ctx, dd.ctor_defs, 1, g)
                 IN  L2_Ok(T_ADT(dd.name, <<>>),
                           [c.ctx EXCEPT !.datatypes =
                               map_insert(c.ctx.datatypes, dd.name, <<<<>>, c.ctors>>)])
      [] node.type_ = "DataCtor" ->
            IF node.data_ctor = None THEN L2_Err(<<"Unimplemented">>, ctx)
            ELSE LET ctor == node.data_ctor[1]
                     adts == { n \in DOMAIN ctx.datatypes :
                                 find_ctor(ctx.datatypes[n][2], ctor.name) # 0 }
                 IN  IF adts = {} THEN L2_Err(<<"Unimplemented">>, ctx)
                     ELSE LET adt_name == CHOOSE n \in adts : TRUE
                              ctors == ctx.datatypes[adt_name][2]
                              found == ctors[find_ctor(ctors, ctor.name)]
                          IN  L2_Ok(T_ADT(adt_name, found.field_types), ctx)
      [] node.type_ = "DataMatch" ->
            IF node.data_match = None THEN L2_Err(<<"Unimplemented">>, ctx)
            ELSE LET dm == node.data_match[1]
                     scrut == infer_l2(ctx, dm.scrutinee_node_id, g)
                 IN  IF ~scrut.ok THEN scrut
                     ELSE infer_l2_arms(scrut.ctx, dm.arms, 1, None, g)
      [] OTHER -> L2_Err(<<"Unimplemented">>, ctx)

\* the effect tags check_and_annotate_graph_v2 reads off a node
effect_tags(node) ==
    IF node.effect_meta # None THEN node.effect_meta[1].effect_tags ELSE <<>>

\* check_and_annotate_graph_v2: the loop visits every node, matches on its
\* kind with empty arms, binds the node's effect tags to an unused name, and
\* returns Ok(())
RECURSIVE check_and_annotate_graph_v2_loop(_, _)
check_and_annotate_graph_v2_loop(g, todo) ==
    IF todo = {} THEN [ok |-> TRUE, err |-> None]
    ELSE LET node_id == CHOOSE x \in todo : TRUE
             effects == effect_tags(g.nodes[node_id])
         IN  check_and_annotate_graph_v2_loop(g, todo \ {node_id})

check_and_annotate_graph_v2(g) == check_and_annotate_graph_v2_loop(g, DOMAIN g.nodes)

\* every effect label on any node of the graph
graph_effect_labels(g) ==
    UNION { { effect_tags(g.nodes[n])[i] : i \in 1..Len(effect_tags(g.nodes[n])) } :
            n \in DOMAIN g.nodes }

\* a check that lets every label through
disallowed_effects_none(g, allowed) == {}

\* the labels of the graph the caller has not allowed
disallowed_effects(g, allowed) == graph_effect_labels(g) \ allowed

\* check_and_annotate_graph_v2_with_effects_check(graph, allowed): the results
\* it may return; which disallowed label is named is not fixed
check_and_annotate_graph_v2_with_effects_check(g, allowed) ==
    IF disallowed_effects(g, allowed) = {}
    THEN { check_and_annotate_graph_v2(g) }
    ELSE { [ok |-> FALSE, err |-> <<"EffectNotAllowed", l>>] :
             l \in disallowed_effects(g, allowed) }

\* Graphs handed to the Level-2 checker: data Option = Some(Int) | None at
\* node 1, the Int type node 2, a constructor use at node 3 and a match at the
\* root, node 4 (the graph of test_option_datatype_and_match, with the arms,
\* the scrutinee and the effect tags varied).
N_DataDef(name, ctors, tags) ==
    [type_ |-> "DataDef", effect_meta |-> tags,
     data_def |-> Some([name |-> name, param_names |-> <<>>, ctor_defs |-> ctors])]
N_DataCtor(name, tags) ==
    [type_ |-> "DataCtor", effect_meta |-> tags, data_ctor |-> Some([name |-> name])]
N_DataMatch(scrutinee, arms, tags) ==
    [type_ |-> "DataMatch", effect_meta |-> tags,
     data_match |-> Some([scrutinee_node_id |-> scrutinee, arms |-> arms])]
N_Unknown(tags) == [type_ |-> "Unknown", effect_meta |-> tags]
DataMatchArm(ctor, pvars, body) ==
    [ctor_name |-> ctor, pattern_var_node_ids |-> pvars, body_node_id |-> body]
EffectMeta(tags) == Some([effect_tags |-> tags])

OptionDef ==
    N_DataDef("Option",
              << [name |-> "Some", field_type_node_ids |-> <<2>>],
                 [name |-> "None", field_type_node_ids |-> <<>>] >>,
              None)

\* number of arms of the match
MaxArms == 2

L2Arms ==
    { DataMatchArm("Some", <<2>>, b) : b \in {2, 3} }
    \cup { DataMatchArm("None", <<>>, b) : b \in {2, 3} }
L2ArmLists == UNION { [1..n -> L2Arms] : n \in 0..MaxArms }
L2Tags ==
    { None, EffectMeta(<<"IO">>), EffectMeta(<<"IO", "State">>),
      EffectMeta(<<"IO", "Secret">>) }
L2Allowed == { {}, {"IO"}, {"IO", "State"}, {"Pure"} }
L2Graphs ==
    { [nodes |-> (1 :> OptionDef) @@ (2 :> N_Unknown(t2)) @@ (3 :> N_DataCtor(c, None))
                 @@ (4 :> N_DataMatch(sc, arms, t4)),
       root_node_id |-> 4] :
        t2 \in L2Tags, t4 \in L2Tags, c \in {"Some", "None"}, sc \in {1, 3},
        arms \in L2ArmLists }

InitL2 ==
    /\ l2_graph \in L2Graphs
    /\ l2_allowed \in L2Allowed
    /\ l2_out = None

\* check_and_annotate_graph_v2(&mut graph)
CheckV2 ==
    /\ l2_out = None
    /\ l2_out' = Some([entry |-> "check_and_annotate_graph_v2"]
                      @@ check_and_annotate_graph_v2(l2_graph))
    /\ UNCHANGED <<l2_graph, l2_allowed, graphVars, unifyVars, l1Vars, lintVars, lowerVars, hashVars, uartVars>>

\* infer(&mut TypeContext::new(), root, &graph) of the Level-2 inference
InferL2 ==
    /\ l2_out = None
    /\ LET r == infer_l2(TypeContext_new, l2_graph.root_node_id, l2_graph)
       IN  l2_out' = Some([entry |-> "infer", ok |-> r.ok, err |-> r.err, ty |-> r.ty])
    /\ UNCHANGED <<l2_graph, l2_allowed, graphVars, unifyVars, l1Vars, lintVars, lowerVars, hashVars, uartVars>>

\* check_and_annotate_graph_v2_with_effects_check(&mut graph, &allowed)
CheckEffects ==
    /\ l2_out = None
    /\ \E r \in check_and_annotate_graph_v2_with_effects_check(l2_graph, l2_allowed) :
         l2_out' = Some([entry |-> "check_and_annotate_graph_v2_with_effects_check"] @@ r)
    /\ UNCHANGED <<l2_graph, l2_allowed, graphVars, unifyVars, l1Vars, lintVars, lowerVars, hashVars, uartVars>>

-----------------------------------------------------------------------------
(* Level-0 validator: synapse_cli/src/linter.rs                            *)

\* number of nodes of a validated graph
MaxLintNodes == 2

N_VarNoPayload == [type_ |-> "TermVariable", term_variable |-> None]
N_EffectPerform(name, v) ==
    [type_ |-> "EffectPerform",
     effect_perform |-> Some([effect_name |-> name, value_node_id |-> v])]
N_Metadata(target, loc) ==
    [type_ |-> "Metadata",
     metadata |-> Some([node_id |-> target, source_location |-> loc,
                        annotation_ids |-> <<>>])]
N_TypeAbs(params, body) ==
    [type_ |-> "TypeAbs",
     type_abs |-> Some([type_param_ids |-> params, body_node_id |-> body])]

\* LintErrorCode::as_str
LintErrorCode_as_str(code) ==
    CASE code = "IntegrityError" -> "L001"
      [] code = "ScopeError" -> "L002"
      [] code = "ApplicationError" -> "L003"
      [] code = "AssignmentError" -> "L004"

\* struct LintError; message is the format string with its argument
LintError(code, message, node_id, location) ==
    [code |-> LintErrorCode_as_str(code), message |-> message, node_id |-> node_id,
     location |-> location]

\* get_source_location: the source location of the first Metadata node the
\* iteration over the HashMap meets that has one; the iteration order is not
\* fixed, so every such node may be the first. The node_id argument is unused.
get_source_location(g) ==
    LET locs == { g.nodes[n].metadata[1].source_location :
                    n \in { m \in DOMAIN g.nodes :
                              /\ g.nodes[m].type_ = "Metadata"
                              /\ g.nodes[m].metadata # None
                              /\ g.nodes[m].metadata[1].source_location # None } }
    IN  IF locs = {} THEN {None} ELSE locs

\* the body of the loop of check_node_references for one node
node_reference_errors(g, node_id, loc) ==
    LET node == g.nodes[node_id]
        existing_nodes == DOMAIN g.nodes
        missing(id, what) ==
            IF id \notin existing_nodes
            THEN { LintError("IntegrityError", <<what, id>>, node_id, loc) }
            ELSE {}
    IN
    CASE node.type_ = "TermVariable" ->
            IF node.term_variable # None
            THEN missing(node.term_variable[1].definition_node_id,
                         "Variable references non-existent definition node")
            ELSE {}
      [] node.type_ = "TermLambda" ->
            IF node.term_lambda # None
            THEN LET lambda == node.term_lambda[1] IN
                 missing(lambda.binder_variable_node_id,
                         "Lambda references non-existent binder variable")
                 \cup missing(lambda.body_node_id,
                              "Lambda references non-existent body node")
                 \cup (IF lambda.type_annotation_id # None
                       THEN missing(lambda.type_annotation_id[1],
                                    "Lambda references non-existent type annotation")
                       ELSE {})
            ELSE {}
      [] node.type_ = "TermApplication" ->
            IF node.term_application # None
            THEN LET app == node.term_application[1] IN
                 missing(app.function_node_id,
                         "Application references non-existent function node")
                 \cup missing(app.argument_node_id,
                              "Application references non-existent argument node")
            ELSE {}
      [] node.type_ = "TermRef" ->
            IF node.term_ref # None
            THEN missing(node.term_ref[1].init_value_node_id,
                         "Ref references non-existent init value node")
            ELSE {}
      [] node.type_ = "TermDeref" ->
            IF node.term_deref # None
            THEN missing(node.term_deref[1].ref_node_id,
                         "Deref references non-existent ref node")
            ELSE {}
      [] node.type_ = "TermAssign" ->
            IF node.term_assign # None
            THEN LET term_assign == node.term_assign[1] IN
                 missing(term_assign.ref_node_id,
                         "Assignment references non-existent ref node")
                 \cup missing(term_assign.value_node_id,
                              "Assignment references non-existent value node")
            ELSE {}
      [] OTHER -> {}

\* check_node_references: the diagnostics it pushes (their order follows the
\* HashMap iteration and is not fixed)
check_node_references(g, loc) ==
    UNION { node_reference_errors(g, n, loc) : n \in DOMAIN g.nodes }

\* check_variable_scopes: the scope_map it builds first is never read
check_variable_scopes(g, loc) ==
    UNION { LET node == g.nodes[n] IN
            IF node.type_ = "TermVariable" /\ node.term_variable # None
            THEN LET definition_id == node.term_variable[1].definition_node_id IN
                 IF definition_id \in DOMAIN g.nodes
                 THEN IF g.nodes[definition_id].type_ = "TermLambda" THEN {}
                      ELSE { LintError("ScopeError",
                                       <<"Variable refers to non-binder node of type",
                                         g.nodes[definition_id].type_>>, n, loc) }
                 ELSE { LintError("ScopeError",
                                  <<"Variable refers to non-existent definition node",
                                    definition_id>>, n, loc) }
            ELSE {} : n \in DOMAIN g.nodes }

\* check_simple_type_errors
check_simple_type_errors(g, loc) ==
    UNION { LET node == g.nodes[n] IN
            CASE node.type_ = "TermApplication" /\ node.term_application # None ->
                    LET f == node.term_application[1].function_node_id IN
                    IF f \in DOMAIN g.nodes
                       /\ g.nodes[f].type_ \notin {"TermLambda", "TermVariable", "TermApplication"}
                    THEN { LintError("ApplicationError",
                                     <<"Applying non-function node of type", g.nodes[f].type_>>,
                                     n, loc) }
                    ELSE {}
              [] node.type_ = "TermAssign" /\ node.term_assign # None ->
                    LET r == node.term_assign[1].ref_node_id IN
                    IF r \in DOMAIN g.nodes
                       /\ g.nodes[r].type_ \notin {"TermRef", "TermDeref", "TermVariable"}
                    THEN { LintError("AssignmentError",
                                     <<"Assigning to non-reference node of type", g.nodes[r].type_>>,
                                     n, loc) }
                    ELSE {}
              [] OTHER -> {} : n \in DOMAIN g.nodes }

\* lint_graph: the three passes, in this order
lint_graph(g, loc) ==
    check_node_references(g, loc) \cup check_variable_scopes(g, loc)
        \cup check_simple_type_errors(g, loc)

\* Graphs handed to the validator: up to MaxLintNodes nodes under the keys
\* LintKeys (a restored graph may hold key 0), whose references range over
\* the same ids.
LintKeys == {0, 1, 2}
LintPairs == { <<1, 1>>, <<1, 2>>, <<2, 1>>, <<0, 2>> }
LintNodes ==
    { N_LitInt(1), N_VarNoPayload, N_TypeAbs(<<>>, 1), N_Lambda(1, 2, Some(2)) }
    \cup { N_Var("x", d) : d \in LintKeys }
    \cup { N_Lambda(p[1], p[2], None) : p \in LintPairs }
    \cup { N_App(p[1], p[2]) : p \in LintPairs }
    \cup { N_PrimOp("+", p) : p \in LintPairs }
    \cup { N_Assign(p[1], p[2]) : p \in LintPairs }
    \cup { N_Ref(d) : d \in LintKeys }
    \cup { N_Deref(d) : d \in LintKeys }
    \cup { N_EffectPerform("IO", d) : d \in LintKeys }
    \cup { N_Metadata(1, None), N_Metadata(2, Some([filename |-> "a.syn", start_line |-> 1])) }

InitLint ==
    /\ l0_graph = [nodes |-> EmptyMap]
    /\ l0_out = None

\* the graph gains a node (add_node, or a node of the message from_proto restores)
LintAddNode ==
    /\ Cardinality(DOMAIN l0_graph.nodes) < MaxLintNodes
    /\ \E k \in LintKeys \ DOMAIN l0_graph.nodes, n \in LintNodes :
         l0_graph' = [nodes |-> map_insert(l0_graph.nodes, k, n)]
    /\ l0_out' = None
    /\ UNCHANGED <<graphVars, unifyVars, l1Vars, l2Vars, lowerVars, hashVars, uartVars>>

\* remove_node: the references to the removed node stay behind
LintRemoveNode ==
    /\ \E k \in DOMAIN l0_graph.nodes :
         l0_graph' = [nodes |-> map_remove(l0_graph.nodes, k)]
    /\ l0_out' = None
    /\ UNCHANGED <<graphVars, unifyVars, l1Vars, l2Vars, lowerVars, hashVars, uartVars>>

\* lint_graph(&graph)
LintGraph ==
    /\ l0_out = None
    /\ \E loc \in get_source_location(l0_graph) :
         l0_out' = Some(lint_graph(l0_graph, loc))
    /\ UNCHANGED <<l0_graph, graphVars, unifyVars, l1Vars, l2Vars, lowerVars, hashVars, uartVars>>

-----------------------------------------------------------------------------
(* Lowerer: asg_to_upir/src/lowering.rs, upir_core/src/ir.rs               *)

\* struct ValueDef, struct Operation, struct BlockArgument; a bool is 0 or 1
ValueDef(id, ty) == [id |-> id, ty |-> ty]
Operation(name, operands, results, attributes) ==
    [name |-> name, operands |-> operands, results |-> results,
     attributes |-> attributes, regions |-> <<>>]
BlockArgument(value_def, block_id, index) ==
    [value_def |-> value_def, block_id |-> block_id, index |-> index]

\* an operation name: the dialect prefix and the name inside the dialect
OpName(dialect, op) == <<dialect, op>>

\* LoweringContext::new
LoweringContext_new ==
    [upir_module |-> [name |-> "main", functions |-> <<>>],
     ir_value_map |-> EmptyMap, next_value |-> 0, next_block |-> 0,
     type_id_map |-> EmptyMap, next_type |-> 1]

\* a counter that hands out the same ValueId again
next_value_no_advance(ctx) == [id |-> ctx.next_value, ctx |-> ctx]

\* LoweringContext::next_value
next_value(ctx) ==
    [id |-> ctx.next_value, ctx |-> [ctx EXCEPT !.next_value = ctx.next_value + 1]]

\* LoweringContext::next_block
next_block(ctx) ==
    [id |-> ctx.next_block, ctx |-> [ctx EXCEPT !.next_block = ctx.next_block + 1]]

\* a resolve_type that does not look the type up before numbering it
resolve_type_no_lookup(ctx, ty) ==
    [id |-> ctx.next_type,
     ctx |-> [ctx EXCEPT !.next_type = ctx.next_type + 1,
                         !.type_id_map = map_insert(ctx.type_id_map, ty, ctx.next_type)]]

\* LoweringContext::resolve_type
resolve_type(ctx, ty) ==
    IF ty \in DOMAIN ctx.type_id_map
    THEN [id |-> ctx.type_id_map[ty], ctx |-> ctx]
    ELSE [id |-> ctx.next_type,
          ctx |-> [ctx EXCEPT !.next_type = ctx.next_type + 1,
                              !.type_id_map = map_insert(ctx.type_id_map, ty, ctx.next_type)]]

\* Result<(ValueId, Vec<Operation>)> of lower_expr, with the context it leaves
E_Ok(val, ops, ctx) == [ok |-> TRUE, val |-> val, ops |-> ops, err |-> None, ctx |-> ctx]
E_Err(e, ctx) == [ok |-> FALSE, val |-> None, ops |-> <<>>, err |-> e, ctx |-> ctx]

bind_value(ctx, node_id, val) ==
    [ctx EXCEPT !.ir_value_map = map_insert(ctx.ir_value_map, node_id, val)]

RECURSIVE lower_expr(_, _, _, _, _)
RECURSIVE lower_args(_, _, _, _, _, _, _, _)

\* the loop over op.argument_node_ids of the PrimitiveOp arm
lower_args(ctx, args, i, block, g, tm, result_ops, arg_vals) ==
    IF i > Len(args)
    THEN [ok |-> TRUE, ops |-> result_ops, vals |-> arg_vals, err |-> None, ctx |-> ctx]
    ELSE LET a == lower_expr(ctx, args[i], block, g, tm)
         IN  IF ~a.ok
             THEN [ok |-> FALSE, ops |-> <<>>, vals |-> <<>>, err |-> a.err, ctx |-> a.ctx]
             ELSE lower_args(a.ctx, args, i + 1, block, g, tm,
                             result_ops \o a.ops, Append(arg_vals, a.val))

\* lower_expr
lower_expr(ctx0, node_id, block, g, tm) ==
    IF node_id \notin DOMAIN g.nodes THEN E_Err(<<"NodeNotLowerable", node_id>>, ctx0)
    ELSE IF node_id \notin DOMAIN tm THEN E_Err(<<"MissingType", node_id>>, ctx0)
    ELSE
    LET node == g.nodes[node_id]
        rt0 == resolve_type(ctx0, tm[node_id])
        typid == rt0.id
        ctx == rt0.ctx
    IN
    CASE node.type_ = "TermVariable" ->
            IF node_id \in DOMAIN ctx.ir_value_map
            THEN E_Ok(ctx.ir_value_map[node_id], <<>>, ctx)
            ELSE IF node.term_variable # None
            THEN LET d == node.term_variable[1].definition_node_id IN
                 IF d \in DOMAIN ctx.ir_value_map
                 THEN E_Ok(ctx.ir_value_map[d], <<>>,
                           bind_value(ctx, node_id, ctx.ir_value_map[d]))
                 ELSE E_Err(<<"NodeNotLowerable", node_id>>, ctx)
            ELSE E_Err(<<"NodeNotLowerable", node_id>>, ctx)
      [] node.type_ = "LiteralInt" ->
            LET v == next_value(ctx) IN
            E_Ok(v.id,
                 <<Operation(OpName("core", "constant"), <<>>, <<ValueDef(v.id, typid)>>,
                             "value" :> <<"Integer", node.value>>)>>,
                 bind_value(v.ctx, node_id, v.id))
      [] node.type_ = "LiteralBool" ->
            LET v == next_value(ctx) IN
            E_Ok(v.id,
                 <<Operation(OpName("core", "constant"), <<>>, <<ValueDef(v.id, typid)>>,
                             "value" :> <<"Bool", node.value>>)>>,
                 bind_value(v.ctx, node_id, v.id))
      [] node.type_ = "TermApplication" ->
            IF node.term_application # None
            THEN LET app == node.term_application[1]
                     f == lower_expr(ctx, app.function_node_id, block, g, tm)
                 IN  IF ~f.ok THEN f ELSE
                     LET a == lower_expr(f.ctx, app.argument_node_id, block, g, tm)
                     IN  IF ~a.ok THEN a ELSE
                         LET v == next_value(a.ctx)
                             call_op == Operation(OpName("func", "call"), <<f.val, a.val>>,
                                                  <<ValueDef(v.id, typid)>>, EmptyMap)
                         IN  E_Ok(v.id, (f.ops \o a.ops) \o <<call_op>>,
                                  bind_value(v.ctx, node_id, v.id))
            ELSE E_Err(<<"Unimplemented", "term application missing">>, ctx)
      [] node.type_ = "PrimitiveOp" ->
            IF node.primitive_op # None
            THEN LET op == node.primitive_op[1]
                     as == lower_args(ctx, op.argument_node_ids, 1, block, g, tm, <<>>, <<>>)
                 IN  IF ~as.ok THEN E_Err(as.err, as.ctx) ELSE
                     LET v == next_value(as.ctx)
                         ir_op == Operation(OpName("core", op.op_name), as.vals,
                                            <<ValueDef(v.id, typid)>>, EmptyMap)
                     IN  E_Ok(v.id, as.ops \o <<ir_op>>, bind_value(v.ctx, node_id, v.id))
            ELSE E_Err(<<"Unimplemented", "primitive op">>, ctx)
      [] node.type_ = "TermRef" ->
            IF node.term_ref # None
            THEN LET val == lower_expr(ctx, node.term_ref[1].init_value_node_id, block, g, tm)
                 IN  IF ~val.ok THEN val ELSE
                     LET r == next_value(val.ctx)
                         alloc_op == Operation(OpName("mem", "alloc"), <<>>,
                                               <<ValueDef(r.id, typid)>>, EmptyMap)
                         store_op == Operation(OpName("mem", "store"), <<r.id, val.val>>,
                                               <<>>, EmptyMap)
                     IN  E_Ok(r.id, val.ops \o <<alloc_op, store_op>>,
                              bind_value(r.ctx, node_id, r.id))
            ELSE E_Err(<<"Unimplemented", "term ref">>, ctx)
      [] node.type_ = "TermDeref" ->
            IF node.term_deref # None
            THEN LET ptr == lower_expr(ctx, node.term_deref[1].ref_node_id, block, g, tm)
                 IN  IF ~ptr.ok THEN ptr ELSE
                     LET r == next_value(ptr.ctx)
                         load == Operation(OpName("mem", "load"), <<ptr.val>>,
                                           <<ValueDef(r.id, typid)>>, EmptyMap)
                     IN  E_Ok(r.id, ptr.ops \o <<load>>, bind_value(r.ctx, node_id, r.id))
            ELSE E_Err(<<"Unimplemented", "term deref">>, ctx)
      [] node.type_ = "TermAssign" ->
            IF node.term_assign # None
            THEN LET assign == node.term_assign[1]
                     r == lower_expr(ctx, assign.ref_node_id, block, g, tm)
                 IN  IF ~r.ok THEN r ELSE
                     LET v == lower_expr(r.ctx, assign.value_node_id, block, g, tm)
                     IN  IF ~v.ok THEN v ELSE
                         LET assign_op == Operation(OpName("mem", "store"), <<r.val, v.val>>,
                                                    <<>>, EmptyMap)
                             res == next_value(v.ctx)
                             dummy_true == Operation(OpName("core", "constant"), <<>>,
                                                     <<ValueDef(res.id, typid)>>,
                                                     "value" :> <<"Bool", 1>>)
                         IN  E_Ok(res.id, (r.ops \o v.ops) \o <<assign_op, dummy_true>>,
                                  bind_value(res.ctx, node_id, res.id))
            ELSE E_Err(<<"Unimplemented", "term assign">>, ctx)
      [] OTHER -> E_Err(<<"NodeNotLowerable", node_id>>, ctx)

\* lower_lambda
lower_lambda(ctx0, node_id, g, tm) ==
    IF node_id \notin DOMAIN g.nodes \/ g.nodes[node_id].term_lambda = None
    THEN [ok |-> FALSE, func |-> None, err |-> <<"NodeNotLowerable", node_id>>, ctx |-> ctx0]
    ELSE
    LET lambda == g.nodes[node_id].term_lambda[1]
        binder_id == lambda.binder_variable_node_id
    IN
    IF binder_id \notin DOMAIN tm
    THEN [ok |-> FALSE, func |-> None, err |-> <<"MissingType", binder_id>>, ctx |-> ctx0]
    ELSE
    LET param_ty == resolve_type(ctx0, tm[binder_id]) IN
    IF lambda.body_node_id \notin DOMAIN tm
    THEN [ok |-> FALSE, func |-> None, err |-> <<"MissingType", lambda.body_node_id>>,
          ctx |-> param_ty.ctx]
    ELSE
    LET res_ty == resolve_type(param_ty.ctx, tm[lambda.body_node_id])
        fid == <<"lambda_", node_id>>
        blk == next_block(res_ty.ctx)
        param_val == next_value(blk.ctx)
        ctx1 == bind_value(param_val.ctx, binder_id, param_val.id)
        block_arg == BlockArgument(ValueDef(param_val.id, param_ty.id), blk.id, 0)
        body == lower_expr(ctx1, lambda.body_node_id, blk.id, g, tm)
    IN
    IF ~body.ok THEN [ok |-> FALSE, func |-> None, err |-> body.err, ctx |-> body.ctx]
    ELSE
    LET ret_op == Operation(OpName("func", "return"), <<body.val>>, <<>>, EmptyMap)
        block == [id |-> blk.id, arguments |-> <<block_arg>>,
                  operations |-> Append(body.ops, ret_op)]
        func == [name |-> fid,
                 signature |-> [arg_types |-> <<param_ty.id>>, result_types |-> <<res_ty.id>>],
                 regions |-> << [blocks |-> <<block>>] >>]
    IN  [ok |-> TRUE, func |-> Some(func), err |-> None, ctx |-> body.ctx]

\* lower_graph_to_upir; the context is dropped by the code and kept here for
\* the claims that speak of the node-to-value mapping
lower_graph_to_upir(g, tm) ==
    LET ctx == LoweringContext_new
        root == g.root_node_id
    IN
    IF root \in DOMAIN g.nodes
    THEN IF g.nodes[root].type_ = "TermLambda"
         THEN LET fun == lower_lambda(ctx, root, g, tm) IN
              IF fun.ok
              THEN [ok |-> TRUE, err |-> None, ctx |-> fun.ctx,
                    module |-> [name |-> "main", functions |-> <<fun.func[1]>>]]
              ELSE [ok |-> FALSE, err |-> fun.err, ctx |-> fun.ctx, module |-> None]
         ELSE [ok |-> FALSE, err |-> <<"NodeNotLowerable", root>>, ctx |-> ctx,
               module |-> None]
    ELSE [ok |-> TRUE, err |-> None, ctx |-> ctx, module |-> ctx.upir_module]

\* Does lower_expr(ctx, node_id, ..) call itself without end?  stack holds the
\* nodes whose lower_expr call is in progress.  lower_expr keeps no such set:
\* it recurses into the operands of a node whatever was entered before, and a
\* call that meets a node of stack repeats the calls made since that node was
\* entered (they returned Ok, and return Ok again, since ir_value_map only
\* grows).  An operand is entered only if the operands before it returned Ok.
RECURSIVE expr_recurs(_, _, _, _, _, _)
RECURSIVE args_recur(_, _, _, _, _, _, _)
args_recur(ctx, args, i, block, g, tm, stack) ==
    IF i > Len(args) THEN FALSE
    ELSE \/ expr_recurs(ctx, args[i], block, g, tm, stack)
         \/ LET a == lower_expr(ctx, args[i], block, g, tm)
            IN  a.ok /\ args_recur(a.ctx, args, i + 1, block, g, tm, stack)

expr_recurs(ctx0, node_id, block, g, tm, stack) ==
    IF node_id \in stack THEN TRUE
    ELSE IF node_id \notin DOMAIN g.nodes \/ node_id \notin DOMAIN tm THEN FALSE
    ELSE
    LET node == g.nodes[node_id]
        ctx == resolve_type(ctx0, tm[node_id]).ctx
        inner == stack \cup {node_id}
    IN
    CASE node.type_ = "TermApplication" /\ node.term_application # None ->
            args_recur(ctx, <<node.term_application[1].function_node_id,
                              node.term_application[1].argument_node_id>>,
                       1, block, g, tm, inner)
      [] node.type_ = "PrimitiveOp" /\ node.primitive_op # None ->
            args_recur(ctx, node.primitive_op[1].argument_node_ids, 1, block, g, tm, inner)
      [] node.type_ = "TermRef" /\ node.term_ref # None ->
            expr_recurs(ctx, node.term_ref[1].init_value_node_id, block, g, tm, inner)
      [] node.type_ = "TermDeref" /\ node.term_deref # None ->
            expr_recurs(ctx, node.term_deref[1].ref_node_id, block, g, tm, inner)
      [] node.type_ = "TermAssign" /\ node.term_assign # None ->
            args_recur(ctx, <<node.term_assign[1].ref_node_id,
                              node.term_assign[1].value_node_id>>,
                       1, block, g, tm, inner)
      [] OTHER -> FALSE

\* Does lower_graph_to_upir(g, tm) recurse without end?  It reaches lower_expr
\* through lower_lambda, on the body of a root lambda whose binder and body
\* have a type.
lower_recurs(g, tm) ==
    LET root == g.root_node_id IN
    /\ root \in DOMAIN g.nodes
    /\ g.nodes[root].type_ = "TermLambda"
    /\ g.nodes[root].term_lambda # None
    /\ LET lambda == g.nodes[root].term_lambda[1]
           binder_id == lambda.binder_variable_node_id
       IN  /\ binder_id \in DOMAIN tm
           /\ lambda.body_node_id \in DOMAIN tm
           /\ LET param_ty == resolve_type(LoweringContext_new, tm[binder_id])
                  res_ty == resolve_type(param_ty.ctx, tm[lambda.body_node_id])
                  blk == next_block(res_ty.ctx)
                  param_val == next_value(blk.ctx)
                  ctx1 == bind_value(param_val.ctx, binder_id, param_val.id)
              IN  expr_recurs(ctx1, lambda.body_node_id, blk.id, g, tm, {})

\* the outcome of a recursion without end: the thread overflows its stack and
\* the process is aborted; no module and no LoweringError is returned
StackOverflow ==
    [ok |-> FALSE, err |-> <<"stack overflow">>, ctx |-> LoweringContext_new,
     module |-> None]

\* Graphs and type maps handed to the lowerer: the binder variable x (node 1),
\* a literal (node 2), a second occurrence of x (node 3), an expression over
\* them (node 4, with or without effect tags), an expression over that
\* (node 5), the lambda (node 6), and its application to 42 (nodes 7 and 8).
\* The type map gives a literal its type and every occurrence of x the type
\* of x.  Some of the expressions are their own operand, directly (node 5) or
\* through node 5 (node 4).
WithEffects(node, tags) == node @@ [effect_meta |-> tags]
LowerInner ==
    { N_PrimOp("+", <<1, 2>>), N_PrimOp("+", <<2, 2>>), N_PrimOp("+", <<3, 1>>),
      N_App(1, 2), N_Ref(2), N_Deref(3), N_Assign(3, 2), N_Deref(5) }
LowerOuter ==
    { N_PrimOp("+", <<4, 4>>), N_PrimOp("+", <<4, 2>>), N_Ref(4), N_Deref(4),
      N_Assign(4, 2), N_Lambda(3, 2, None), N_PrimOp("+", <<2, 5>>), N_App(5, 2) }
LowerGraphs ==
    { [nodes |-> (1 :> N_Var("x", 6)) @@ (2 :> lit) @@ (3 :> N_Var("x", d3))
                 @@ (4 :> WithEffects(inner, tags)) @@ (5 :> outer)
                 @@ (6 :> N_Lambda(1, body, None)) @@ (7 :> N_LitInt(42))
                 @@ (8 :> N_App(6, 7)),
       root_node_id |-> root] :
        lit \in {N_LitInt(1), N_LitBool(1)}, d3 \in {1, 6},
        inner \in LowerInner, tags \in {None, EffectMeta(<<"IO", "State">>)},
        outer \in LowerOuter, body \in {1, 3, 4, 5}, root \in {0, 6, 8} }
LowerTypeMaps(g) ==
    { ((1 :> tx) @@ (2 :> (IF g.nodes[2].type_ = "LiteralInt" THEN T_Int ELSE T_Bool))
       @@ (3 :> tx) @@ t4 @@ (5 :> t5)
       @@ (6 :> T_Function(tx, T_Int)) @@ (7 :> T_Int) @@ (8 :> T_Int)) :
        tx \in {T_Int, T_Bool},
        t4 \in {EmptyMap, 4 :> T_Int, 4 :> T_Ref(T_Int)},
        t5 \in {T_Int, T_Ref(T_Int)} }

InitLower ==
    /\ lw_graph \in LowerGraphs
    /\ lw_types \in LowerTypeMaps(lw_graph)
    /\ lw_out = None

\* lower_graph_to_upir(&graph, &types)
Lower ==
    /\ lw_out = None
    /\ lw_out' = Some(IF lower_recurs(lw_graph, lw_types) THEN StackOverflow
                      ELSE lower_graph_to_upir(lw_graph, lw_types))
    /\ UNCHANGED <<lw_graph, lw_types, graphVars, unifyVars, l1Vars, l2Vars, lintVars,
                   hashVars, uartVars>>

-----------------------------------------------------------------------------
(* Hashing of whole graphs: asg_core/src/hash.rs                           *)

\* number of nodes in a hashed graph
MaxHashNodes == 2

METADATA == 50

\* keys of the hashed graphs
HashIds == {1, 2, 3}

\* payloads of the hashed nodes: "+" applied to node 1, the operator named
\* "+\u{1}\0\0\0\0\0\0\0" applied to nothing, a Metadata of node 1 located at
\* 0:0-0:0 of the file "", and a Metadata of node 1 with the annotations 0, 0
HashContents ==
    { <<PRIMITIVE_OP, [variant |-> "PrimitiveOp", op_name |-> <<43>>,
                       argument_node_ids |-> <<1>>]>>,
      <<PRIMITIVE_OP, [variant |-> "PrimitiveOp",
                       op_name |-> <<43, 1, 0, 0, 0, 0, 0, 0, 0>>,
                       argument_node_ids |-> <<>>]>>,
      <<METADATA, [variant |-> "Metadata", node_id |-> 1,
                   source_location |-> Some([filename |-> <<>>, start_line |-> 0,
                                             start_col |-> 0, end_line |-> 0,
                                             end_col |-> 0]),
                   annotation_ids |-> <<>>]>>,
      <<METADATA, [variant |-> "Metadata", node_id |-> 1, source_location |-> None,
                   annotation_ids |-> <<0, 0>>]>> }

\* the graphs handed to hash_graph: a node map and a root that is unset or the
\* lowest key
HashGraphs ==
    UNION { UNION { { [nodes |-> [k \in K |-> AsgNode(k, cs[k][1], cs[k][2])],
                       root_id |-> r] :
                      r \in {None} \cup { Some(k) : k \in { k \in K : \A j \in K : k <= j } } } :
                    cs \in [K -> HashContents] } :
            K \in { K \in SUBSET HashIds : Cardinality(K) <= MaxHashNodes } }

InitHash ==
    /\ hs_a \in HashGraphs
    /\ hs_b \in HashGraphs
    /\ hs_out = None

\* hash_graph on both graphs; each HashMap yields its keys in some order
HashBoth ==
    /\ hs_out = None
    /\ LET da == { <<keys, hash_graph(hs_a, keys)>> : keys \in Orders(DOMAIN hs_a.nodes) }
           db == { <<keys, hash_graph(hs_b, keys)>> : keys \in Orders(DOMAIN hs_b.nodes) }
       IN  \E a \in da, b \in db :
             hs_out' = Some([digests |-> <<a[2], b[2]>>, same_order |-> a[1] = b[1]])
    /\ UNCHANGED <<hs_a, hs_b, graphVars, unifyVars, l1Vars, l2Vars, lintVars, lowerVars,
                   uartVars>>

-----------------------------------------------------------------------------
(* synapse_uart, fault.rs: the circuit breaker.  Every lock acquisition    *)
(* and every atomic access of a caller is a step of its own; what a        *)
(* caller does between two of them is local and belongs to the step        *)
(* before.  A caller's todo is the rest of the call it is in.              *)

\* number of threads that share the breaker
NumCallers == 2
Callers == 1..NumCallers

failure_threshold == 5
success_threshold == 3

\* the caller is in no call of the breaker
NoCall ==
    [ctx |-> "none", todo |-> <<>>, state |-> "Closed", seen |-> None,
     invoked |-> FALSE, touched |-> FALSE, result |-> None]

\* execute, the match on the state: a mutation that never fails fast
fails_fast_never(state) == FALSE
\* execute, the match on the state: the Open arm
fails_fast(state) == state = "Open"

\* the call has returned: its locals are gone; what a call of execute whose
\* state() returned Open did is kept until the caller's next call
returned(c) ==
    IF c.seen = Some("Open") THEN [c EXCEPT !.ctx = "none", !.state = "Closed", !.todo = <<>>]
    ELSE NoCall

\* state() has returned c.state to the function c.ctx, which runs up to its
\* next access of the breaker
after_state(c) ==
    CASE c.ctx = "execute" ->
           LET d == [c EXCEPT !.seen = IF c.state = "Open" THEN Some("Open") ELSE None]
           IN  IF fails_fast(c.state)
               THEN returned([d EXCEPT !.result = Some("Err")])
               ELSE [d EXCEPT !.todo = <<"operation">>]
      [] c.ctx = "record_success" ->
           CASE c.state = "HalfOpen" -> [c EXCEPT !.todo = <<"fetch_add_success">>]
             [] c.state = "Closed"   -> [c EXCEPT !.todo = <<"store_failure">>]
             [] OTHER                -> returned(c)
      [] c.ctx = "record_failure" ->
           CASE c.state = "Closed"   -> [c EXCEPT !.todo = <<"fetch_add_failure">>]
             [] c.state = "HalfOpen" ->
                  [c EXCEPT !.todo = <<"write_Open", "write_last_change", "store_success">>]
             [] OTHER                -> returned(c)
      [] OTHER -> c

\* state() has returned: the local it was assigned to is dead after the match
state_returned(c) == [after_state(c) EXCEPT !.state = "Closed"]

\* the caller has done the head of its todo
advance(c) ==
    LET d == [c EXCEPT !.todo = Tail(c.todo)]
    IN  IF d.todo = <<>> THEN returned(d)
        ELSE IF Head(d.todo) = "return" THEN state_returned(d)
        ELSE d

\* state(): *self.state.lock(), by the caller c
lock_state(c) ==
    IF cb_state = "Open" THEN [c EXCEPT !.state = "Open", !.todo = <<"last_change">>]
    ELSE state_returned([c EXCEPT !.state = cb_state])

At(t, op) == cb_thread[t].todo # <<>> /\ Head(cb_thread[t].todo) = op

InitBreaker ==
    /\ cb_state = "Closed"
    /\ failure_count = 0
    /\ success_count = 0
    /\ timeout_elapsed = FALSE
    /\ cb_thread = [t \in Callers |-> NoCall]

\* execute is called, up to the first lock of its state()
Execute(t) ==
    /\ cb_thread[t].todo = <<>>
    /\ cb_thread' = [cb_thread EXCEPT ![t] = lock_state([NoCall EXCEPT !.ctx = "execute"])]
    /\ UNCHANGED <<cb_state, failure_count, success_count, timeout_elapsed>>
    /\ UNCHANGED <<compilerVars, retryVars, schedVars>>

\* state(): *self.last_state_change.lock() and the test of elapsed()
LastChange(t) ==
    /\ At(t, "last_change")
    /\ cb_thread' = [cb_thread EXCEPT ![t] =
                       IF timeout_elapsed
                       THEN [@ EXCEPT !.state = "HalfOpen",
                                      !.todo = <<"write_HalfOpen", "write_last_change", "return">>]
                       ELSE state_returned(@)]
    /\ UNCHANGED <<cb_state, failure_count, success_count, timeout_elapsed>>
    /\ UNCHANGED <<compilerVars, retryVars, schedVars>>

\* *self.state.lock() = ..., in state(), record_success, record_failure, reset
WriteState(t) ==
    /\ \E s \in {"Closed", "Open", "HalfOpen"} :
         /\ At(t, "write_" \o s)
         /\ cb_state' = s
    /\ cb_thread' = [cb_thread EXCEPT ![t] = advance(@)]
    /\ UNCHANGED <<failure_count, success_count, timeout_elapsed>>
    /\ UNCHANGED <<compilerVars, retryVars, schedVars>>

\* *self.last_state_change.lock() = Instant::now()
WriteLastChange(t) ==
    /\ At(t, "write_last_change")
    /\ timeout_elapsed' = FALSE
    /\ cb_thread' = [cb_thread EXCEPT ![t] = advance(@)]
    /\ UNCHANGED <<cb_state, failure_count, success_count>>
    /\ UNCHANGED <<compilerVars, retryVars, schedVars>>

\* execute: operation() has returned, and record_success or record_failure
\* runs up to the first lock of its state()
RunOperation(t) ==
    /\ At(t, "operation")
    /\ \E ok \in BOOLEAN :
         cb_thread' = [cb_thread EXCEPT ![t] =
                         lock_state([@ EXCEPT !.invoked = TRUE,
                                              !.result = Some(IF ok THEN "Ok" ELSE "Err"),
                                              !.ctx = IF ok THEN "record_success"
                                                      ELSE "record_failure"])]
    /\ UNCHANGED <<cb_state, failure_count, success_count, timeout_elapsed>>
    /\ UNCHANGED <<compilerVars, retryVars, schedVars>>

\* record_success: success_count.fetch_add(1) + 1 and the test of the threshold
FetchAddSuccess(t) ==
    /\ At(t, "fetch_add_success")
    /\ success_count' = success_count + 1
    /\ cb_thread' = [cb_thread EXCEPT ![t] =
                       IF success_count + 1 >= success_threshold
                       THEN [@ EXCEPT !.touched = TRUE,
                                      !.todo = <<"write_Closed", "write_last_change",
                                                 "store_success", "store_failure">>]
                       ELSE returned([@ EXCEPT !.touched = TRUE])]
    /\ UNCHANGED <<cb_state, failure_count, timeout_elapsed>>
    /\ UNCHANGED <<compilerVars, retryVars, schedVars>>

\* record_failure: failure_count.fetch_add(1) + 1 and the test of the threshold
FetchAddFailure(t) ==
    /\ At(t, "fetch_add_failure")
    /\ failure_count' = failure_count + 1
    /\ cb_thread' = [cb_thread EXCEPT ![t] =
                       IF failure_count + 1 >= failure_threshold
                       THEN [@ EXCEPT !.touched = TRUE,
                                      !.todo = <<"write_Open", "write_last_change">>]
                       ELSE returned([@ EXCEPT !.touched = TRUE])]
    /\ UNCHANGED <<cb_state, success_count, timeout_elapsed>>
    /\ UNCHANGED <<compilerVars, retryVars, schedVars>>

\* success_count.store(0)
StoreSuccess(t) ==
    /\ At(t, "store_success")
    /\ success_count' = 0
    /\ cb_thread' = [cb_thread EXCEPT ![t] = advance([@ EXCEPT !.touched = TRUE])]
    /\ UNCHANGED <<cb_state, failure_count, timeout_elapsed>>
    /\ UNCHANGED <<compilerVars, retryVars, schedVars>>

\* failure_count.store(0)
StoreFailure(t) ==
    /\ At(t, "store_failure")
    /\ failure_count' = 0
    /\ cb_thread' = [cb_thread EXCEPT ![t] = advance([@ EXCEPT !.touched = TRUE])]
    /\ UNCHANGED <<cb_state, success_count, timeout_elapsed>>
    /\ UNCHANGED <<compilerVars, retryVars, schedVars>>

\* reset is called
Reset(t) ==
    /\ cb_thread[t].todo = <<>>
    /\ cb_thread' = [cb_thread EXCEPT ![t] =
                       [NoCall EXCEPT !.ctx = "reset",
                                      !.todo = <<"write_Closed", "write_last_change",
                                                 "store_failure", "store_success">>]]
    /\ UNCHANGED <<cb_state, failure_count, success_count, timeout_elapsed>>
    /\ UNCHANGED <<compilerVars, retryVars, schedVars>>

\* time passes: reset_timeout has gone by since last_state_change
TimeoutElapses ==
    /\ ~timeout_elapsed
    /\ timeout_elapsed' = TRUE
    /\ UNCHANGED <<cb_state, failure_count, success_count, cb_thread>>
    /\ UNCHANGED <<compilerVars, retryVars, schedVars>>

-----------------------------------------------------------------------------
(* synapse_uart, fault.rs: FaultManager::with_retry                        *)

\* largest max_retries of a policy
MaxRetries == 3

\* RuntimeError variants an operation fails with; InternalError stands for
\* the variants the match in with_retry sends to its default arm
RuntimeErrors == {"EffectError", "MemoryError", "SchedulerError", "InternalError"}
Outcomes == {<<"Ok">>} \cup { <<"Err", e>> : e \in RuntimeErrors }

\* RetryPolicy::new(max_retries), with or without with_fault_types
RetryPolicy_new(max_retries, fault_types) ==
    [max_retries |-> max_retries, initial_backoff |-> 100, backoff_factor |-> 2,
     max_backoff |-> 60000, fault_types |-> fault_types]

RetryPolicies ==
    { RetryPolicy_new(n, f) :
        n \in 0..MaxRetries,
        f \in {None} \cup { Some(S) : S \in SUBSET {"EffectFailure", "TaskFailure", "Custom"} } }

applies_to(policy, fault_type) ==
    IF policy.fault_types # None THEN fault_type \in policy.fault_types[1] ELSE TRUE

RECURSIVE powi(_,_)
powi(x, n) == IF n = 0 THEN 1 ELSE x * powi(x, n - 1)

\* in milliseconds
calculate_backoff(policy, retry_count) ==
    LET backoff == policy.initial_backoff * powi(policy.backoff_factor, retry_count)
    IN  IF backoff <= policy.max_backoff THEN backoff ELSE policy.max_backoff

\* with_retry, the match that determines the fault type from the error
fault_type_of(err) ==
    CASE err = "EffectError"    -> "EffectFailure"
      [] err = "MemoryError"    -> "MemoryFailure"
      [] err = "SchedulerError" -> "TaskFailure"
      [] OTHER                  -> "Custom"

\* with_retry, the check of the retry count: a mutation that is late by one
retries_exhausted_late(retry_count, policy) == retry_count > policy.max_retries
\* with_retry, the check of the retry count
retries_exhausted(retry_count, policy) == retry_count >= policy.max_retries

\* with_retry is called with some policy; calls is the history of the
\* results of operation(), slept the history of the backoffs waited
InitRetry ==
    /\ wr_policy \in { Some(p) : p \in RetryPolicies }
    /\ wr_run = Some([retry_count |-> 0, calls |-> <<>>, slept |-> <<>>, result |-> None])

\* one pass through the loop of with_retry
Attempt ==
    /\ wr_run # None /\ wr_run[1].result = None
    /\ \E out \in Outcomes :
         LET r == [wr_run[1] EXCEPT !.calls = Append(@, out)]
             policy == wr_policy[1]
             retry_count == r.retry_count + 1
         IN  wr_run' = Some(
               IF out = <<"Ok">> THEN [r EXCEPT !.result = Some(out)]
               ELSE IF ~applies_to(policy, fault_type_of(out[2]))
                    THEN [r EXCEPT !.result = Some(out)]
               ELSE IF retries_exhausted(retry_count, policy)
                    THEN [r EXCEPT !.retry_count = retry_count, !.result = Some(out)]
               ELSE [r EXCEPT !.retry_count = retry_count,
                              !.slept = Append(@, calculate_backoff(policy, retry_count))])
    /\ UNCHANGED <<wr_policy, compilerVars, breakerVars, schedVars>>

-----------------------------------------------------------------------------
(* synapse_uart, scheduler.rs: the task scheduler.  A channel is its queue  *)
(* and the number of its live senders and receivers; a Task in a queue is   *)
(* the index of the spawn call that made it.                                *)

\* number of spawn calls in one behaviour
MaxSpawns == 3
\* config.worker_threads
NumWorkers == 2
Spawns == 1..MaxSpawns
Workers == 1..NumWorkers

\* Scheduler::new: the receiver of the channel whose sender goes into
\* SchedulerControl is a local of new and is dropped when new returns
Scheduler_new ==
    [next_task_id |-> 1, shutdown |-> FALSE, started |-> FALSE,
     cmd_sender |-> [queue |-> <<>>, receivers |-> 0],
     cmd_receiver |-> [queue |-> <<>>, senders |-> 0],
     tasks |-> {}, injector |-> <<>>]

\* a spawn call that was not made yet
NoTask ==
    [call |-> "none", id |-> 0, on_started |-> FALSE, cancel |-> FALSE,
     runs |-> 0, completion |-> "empty", join |-> "none"]

InitSched ==
    /\ sc_control = Scheduler_new
    /\ sc_threads = [cmd |-> "none", workers |-> [w \in Workers |-> "none"],
                     local |-> [w \in Workers |-> <<>>]]
    /\ sc_tasks = [i \in Spawns |-> NoTask]

\* Scheduler::start: the threads are spawned; the command thread gets the
\* receiver of a channel made in start, whose sender is dropped when start
\* returns
Start ==
    /\ ~sc_control.started
    /\ sc_control' = [sc_control EXCEPT !.started = TRUE]
    /\ sc_threads' = [sc_threads EXCEPT !.cmd = "running",
                                        !.workers = [w \in Workers |-> "running"]]
    /\ UNCHANGED <<sc_tasks, compilerVars, breakerVars, retryVars>>

\* Task::execute on the task of spawn call i
Task_execute(task) ==
    IF task.cancel THEN task
    ELSE [task EXCEPT !.runs = @ + 1,
                      !.completion = IF @ = "empty" THEN "sent" ELSE @]

\* a client thread: spawn, then cancel and join on the handle it got
Client(i) ==
    /\ LET task == sc_tasks[i]
           id == sc_control.next_task_id
       IN  CASE task.call = "none" ->
                  \* spawn_with_priority
                  IF sc_control.cmd_sender.receivers > 0
                  THEN /\ sc_control' = [sc_control EXCEPT
                                            !.next_task_id = id + 1,
                                            !.cmd_sender.queue = Append(@, <<"SubmitTask", i>>)]
                       /\ sc_tasks' = [sc_tasks EXCEPT ![i] =
                                         [task EXCEPT !.call = "handle", !.id = id,
                                                      !.on_started = sc_control.started]]
                  ELSE /\ sc_control' = [sc_control EXCEPT !.next_task_id = id + 1]
                       /\ sc_tasks' = [sc_tasks EXCEPT ![i] =
                                         [task EXCEPT !.call = "Err", !.id = id,
                                                      !.on_started = sc_control.started]]
             [] task.call = "handle" /\ task.join = "none" ->
                  \* TaskHandle::cancel, or TaskHandle::join up to receiver.recv()
                  /\ \E cancels \in BOOLEAN :
                       sc_tasks' = [sc_tasks EXCEPT ![i] =
                                      IF cancels /\ ~task.cancel THEN [task EXCEPT !.cancel = TRUE]
                                      ELSE [task EXCEPT !.join = "waiting"]]
                  /\ UNCHANGED sc_control
             [] task.call = "handle" /\ task.join = "waiting" /\ task.completion = "sent" ->
                  \* CompletionSignal::wait: recv() returns
                  /\ sc_tasks' = [sc_tasks EXCEPT ![i] =
                                    [task EXCEPT !.join = "returned", !.completion = "received"]]
                  /\ UNCHANGED sc_control
             [] OTHER -> FALSE
    /\ UNCHANGED <<sc_threads, compilerVars, breakerVars, retryVars>>

\* one pass of command_loop
CommandLoop ==
    /\ sc_threads.cmd = "running"
    /\ LET rx == sc_control.cmd_receiver
       IN  IF sc_control.shutdown THEN
                /\ sc_threads' = [sc_threads EXCEPT !.cmd = "exited"]
                /\ UNCHANGED sc_control
           ELSE IF rx.queue # <<>> THEN
                /\ sc_control' =
                      LET cmd == Head(rx.queue)
                          c == [sc_control EXCEPT !.cmd_receiver.queue = Tail(@)]
                      IN  CASE cmd[1] = "SubmitTask" ->
                                 [c EXCEPT !.tasks = @ \cup {cmd[2]},
                                           !.injector = Append(@, cmd[2])]
                            [] cmd[1] = "Shutdown" -> [c EXCEPT !.shutdown = TRUE]
                            [] OTHER -> c
                /\ sc_threads' = IF Head(rx.queue)[1] = "Shutdown"
                                 THEN [sc_threads EXCEPT !.cmd = "exited"] ELSE sc_threads
           ELSE IF rx.senders = 0 THEN
                \* recv_timeout returns Err(Disconnected)
                /\ sc_threads' = [sc_threads EXCEPT !.cmd = "exited"]
                /\ UNCHANGED sc_control
           ELSE UNCHANGED <<sc_control, sc_threads>>
    /\ UNCHANGED <<sc_tasks, compilerVars, breakerVars, retryVars>>

\* one pass of worker_loop
WorkerLoop(w) ==
    /\ sc_threads.workers[w] = "running"
    /\ LET local == sc_threads.local[w]
           victims == { v \in Workers : v # w /\ sc_threads.local[v] # <<>> }
       IN  IF sc_control.shutdown THEN
                /\ sc_threads' = [sc_threads EXCEPT !.workers[w] = "exited"]
                /\ UNCHANGED <<sc_control, sc_tasks>>
           ELSE IF local # <<>> THEN
                /\ sc_threads' = [sc_threads EXCEPT !.local[w] = Tail(@)]
                /\ sc_tasks' = [sc_tasks EXCEPT ![Head(local)] = Task_execute(@)]
                /\ UNCHANGED sc_control
           ELSE IF sc_control.injector # <<>> THEN
                \* steal_batch_and_pop: the batch goes to the local queue
                /\ sc_control' = [sc_control EXCEPT !.injector = <<>>]
                /\ sc_threads' = [sc_threads EXCEPT !.local[w] = Tail(sc_control.injector)]
                /\ sc_tasks' = [sc_tasks EXCEPT ![Head(sc_control.injector)] = Task_execute(@)]
           ELSE IF victims # {} THEN
                /\ \E v \in victims :
                     /\ sc_threads' = [sc_threads EXCEPT !.local[v] = <<>>,
                                                        !.local[w] = Tail(sc_threads.local[v])]
                     /\ sc_tasks' = [sc_tasks EXCEPT ![Head(sc_threads.local[v])] =
                                                        Task_execute(@)]
                /\ UNCHANGED sc_control
           ELSE UNCHANGED <<sc_control, sc_threads, sc_tasks>>
    /\ UNCHANGED <<compilerVars, breakerVars, retryVars>>

\* Scheduler::shutdown, up to the join of the threads
Shutdown ==
    /\ ~sc_control.shutdown
    /\ sc_control' = [sc_control EXCEPT
                        !.shutdown = TRUE,
                        !.cmd_sender.queue = IF sc_control.cmd_sender.receivers > 0
                                             THEN Append(@, <<"Shutdown">>) ELSE @]
    /\ UNCHANGED <<sc_threads, sc_tasks, compilerVars, breakerVars, retryVars>>

-----------------------------------------------------------------------------
(* Specifications                                                          *)

IdleGraph ==
    /\ nodes = EmptyMap /\ next_id = 1 /\ root_id = None /\ overflow_checks = FALSE
    /\ panicked = FALSE /\ issued = <<>> /\ built = "new" /\ loaded = <<{}, 0>>
    /\ rt = <<>>
IdleUnify == InitUnify
IdleL1 == l1_graph = None /\ l1_out = None /\ l1_calls = <<>>
IdleL2 == l2_graph = None /\ l2_allowed = {} /\ l2_out = None
IdleLint == InitLint
IdleLower == lw_graph = None /\ lw_types = EmptyMap /\ lw_out = None
IdleHash == hs_a = None /\ hs_b = None /\ hs_out = None
IdleBreaker == InitBreaker
IdleRetry == wr_policy = None /\ wr_run = None
IdleSched == sc_control = None /\ sc_threads = None /\ sc_tasks = None
IdleUart == IdleBreaker /\ IdleRetry /\ IdleSched
IdleCompiler ==
    IdleGraph /\ IdleUnify /\ IdleL1 /\ IdleL2 /\ IdleLint /\ IdleLower /\ IdleHash

Init == InitGraph /\ IdleUnify /\ IdleL1 /\ IdleL2 /\ IdleLint /\ IdleLower /\ IdleHash /\ IdleUart
Next == AddNode \/ SetRoot \/ RemoveNode \/ FromProto \/ SaveLoad
Spec == Init /\ [][Next]_vars

InitSpecUnify == IdleGraph /\ InitUnify /\ IdleL1 /\ IdleL2 /\ IdleLint /\ IdleLower /\ IdleHash /\ IdleUart
NextSpecUnify == Unify
SpecUnify == InitSpecUnify /\ [][NextSpecUnify]_vars

\* the graph store with writes through get_node_mut
NextSpecMut == AddNode \/ SetRoot \/ RemoveNode \/ FromProto \/ GetNodeMut
SpecMut == Init /\ [][NextSpecMut]_vars

\* the unifier driven by the calls that bind a variable
NextSpecBind == UnifyVarLeft \/ UnifyVarRight
SpecBind == InitSpecUnify /\ [][NextSpecBind]_vars

InitSpecL1 == IdleGraph /\ IdleUnify /\ InitL1 /\ IdleL2 /\ IdleLint /\ IdleLower /\ IdleHash /\ IdleUart
NextSpecL1 == CheckL1
SpecL1 == InitSpecL1 /\ [][NextSpecL1]_vars

InitSpecL2 == IdleGraph /\ IdleUnify /\ IdleL1 /\ InitL2 /\ IdleLint /\ IdleLower /\ IdleHash /\ IdleUart
NextSpecL2 == CheckV2 \/ InferL2 \/ CheckEffects
SpecL2 == InitSpecL2 /\ [][NextSpecL2]_vars

InitSpecLint == IdleGraph /\ IdleUnify /\ IdleL1 /\ IdleL2 /\ InitLint /\ IdleLower /\ IdleHash /\ IdleUart
NextSpecLint == LintAddNode \/ LintRemoveNode \/ LintGraph
SpecLint == InitSpecLint /\ [][NextSpecLint]_vars

InitSpecLower == IdleGraph /\ IdleUnify /\ IdleL1 /\ IdleL2 /\ IdleLint /\ InitLower /\ IdleHash /\ IdleUart
NextSpecLower == Lower
SpecLower == InitSpecLower /\ [][NextSpecLower]_vars

InitSpecHash == IdleGraph /\ IdleUnify /\ IdleL1 /\ IdleL2 /\ IdleLint /\ IdleLower /\ InitHash /\ IdleUart
NextSpecHash == HashBoth
SpecHash == InitSpecHash /\ [][NextSpecHash]_vars

\* the circuit breaker shared by NumCallers threads
InitSpecBreaker == IdleCompiler /\ InitBreaker /\ IdleRetry /\ IdleSched
NextSpecBreaker ==
    \/ \E t \in Callers : Execute(t)
    \/ \E t \in Callers : LastChange(t)
    \/ \E t \in Callers : WriteState(t)
    \/ \E t \in Callers : WriteLastChange(t)
    \/ \E t \in Callers : RunOperation(t)
    \/ \E t \in Callers : FetchAddSuccess(t)
    \/ \E t \in Callers : FetchAddFailure(t)
    \/ \E t \in Callers : StoreSuccess(t)
    \/ \E t \in Callers : StoreFailure(t)
    \/ \E t \in Callers : Reset(t)
    \/ TimeoutElapses
SpecBreaker == InitSpecBreaker /\ [][NextSpecBreaker]_vars

\* one call of with_retry
InitSpecRetry == IdleCompiler /\ IdleBreaker /\ InitRetry /\ IdleSched
NextSpecRetry == Attempt
SpecRetry == InitSpecRetry /\ [][NextSpecRetry]_vars

\* the scheduler, its threads and its clients
InitSpecSched == IdleCompiler /\ IdleBreaker /\ IdleRetry /\ InitSched
NextSpecSched ==
    \/ Start
    \/ \E i \in Spawns : Client(i)
    \/ CommandLoop
    \/ \E w \in Workers : WorkerLoop(w)
    \/ Shutdown
SpecSched == InitSpecSched /\ [][NextSpecSched]_vars
\* the threads of the scheduler are operating-system threads, and a client that
\* holds a handle goes on to join it: none of them stops while it can take a step
SpecSchedFair ==
    /\ SpecSched
    /\ WF_vars(CommandLoop)
    /\ \A w \in Workers : WF_vars(WorkerLoop(w))
    /\ \A i \in Spawns : WF_vars(sc_tasks[i].call # "none" /\ Client(i))

-----------------------------------------------------------------------------
(* Claims about the graph store (specification Spec)                       *)

\* the ids add_node has returned since the current graph was restored
IssuedSinceRestore == { issued[i] : i \in (loaded[2] + 1)..Len(issued) }

\* C1: on a graph built from new() by add_node and remove_node (and set_root),
\* every id returned by add_node is strictly greater than every id returned
\* before it, and 0 is never returned; so no id is handed out twice, also
\* not after its node was removed.
C1_IdMonotonicity ==
    built = "new" =>
        /\ \A i \in 1..Len(issued) : issued[i] # 0
        /\ \A i, j \in 1..Len(issued) : i < j => issued[i] < issued[j]

\* two ids were handed out on a new() graph and the node of the first is gone
C1_Witness ==
    /\ built = "new"
    /\ Len(issued) >= 2
    /\ issued[1] \notin DOMAIN nodes
    /\ issued[2] \in DOMAIN nodes

\* C2: whenever the root is set, the root id is a key of the node map.
C2_RootResolvable ==
    root_id # None => root_id[1] \in DOMAIN nodes

\* a restored graph with a root, on which a node was added and one removed
C2_Witness ==
    /\ built = "proto"
    /\ root_id # None
    /\ \E i \in 1..Len(issued) : issued[i] \notin DOMAIN nodes
    /\ \E k \in loaded[1] : k \notin DOMAIN nodes

\* C3: load_binary(save_binary(g)) has the root of g and the hash_graph of g.
C3_RoundTrip ==
    rt # <<>> => /\ root_id = rt[1]
                 /\ \A keys \in Orders(DOMAIN nodes) : hash_graph(graph, keys) = rt[2]

\* C4: after from_proto, every id returned by add_node is strictly greater
\* than every node id of the restored graph.
C4_CounterPastLoaded ==
    built = "proto" =>
        \A id \in IssuedSinceRestore : \A k \in loaded[1] : id > k

-----------------------------------------------------------------------------
(* Claims about the graph store with node mutation (specification SpecMut) *)

\* a step that changes nothing of the graph store but the stored nodes, and
\* neither inserts nor removes a key
NodesWritten ==
    /\ DOMAIN nodes' = DOMAIN nodes
    /\ UNCHANGED <<next_id, root_id, issued, built, loaded, panicked>>

\* C25: every node stored under key k has node id k, and a write to a stored
\* node leaves its kind as it was.
C25_KindAndIdImmutable ==
    /\ [](\A k \in DOMAIN nodes : nodes[k].node_id = k)
    /\ [][NodesWritten => \A k \in DOMAIN nodes : nodes'[k].type = nodes[k].type]_vars

-----------------------------------------------------------------------------
(* Claims about the unifier (specification SpecUnify)                      *)

\* C5: whenever unify(a, b) succeeds, applying the resulting substitution to a
\* and to b yields structurally equal types.
C5_UnifierSound ==
    (u_log.calls > 0 /\ u_log.ok) => apply(u_a, u_subst) = apply(u_b, u_subst)

\* C6: from the same starting substitution, unify(a, b) succeeds if and only
\* if unify(b, a) succeeds.
C6_UnifySymmetric ==
    u_log.calls > 0 => (u_log.ok <=> unify(u_b, u_a, u_log.before).ok)

\* the type variables that occur in t
RECURSIVE VarsOf(_)
VarsOf(t) ==
    CASE IsVar(t) -> {t[2]}
      [] IsFunction(t) -> VarsOf(t[2]) \cup VarsOf(t[3])
      [] IsRef(t) -> VarsOf(t[2])
      [] OTHER -> {}

\* the variables reached from the variables S by following at most n bindings
RECURSIVE ReachedIn(_, _, _)
ReachedIn(S, subst, n) ==
    IF n = 0 THEN S
    ELSE ReachedIn(S \cup UNION { VarsOf(subst[v]) : v \in S \cap DOMAIN subst },
                   subst, n - 1)

\* the variables that occur in t, directly or through the bindings of subst
ReachedFrom(t, subst) == ReachedIn(VarsOf(t), subst, Cardinality(DOMAIN subst))

\* the last call had to bind v to t
MustBind(v, t) ==
    \/ u_a = T_Var(v) /\ u_b = t /\ t # T_Var(v)
    \/ u_b = T_Var(v) /\ u_a = t /\ ~IsVar(t)

\* C21: no variable is reachable from its own binding in the substitution, and
\* a unify call that has to bind v to a type in which v occurs, directly or
\* through the bindings, fails with OccursCheck and binds nothing.
C21_SubstitutionAcyclic ==
    /\ \A v \in DOMAIN u_subst : v \notin ReachedFrom(u_subst[v], u_subst)
    /\ \A v \in 0..(NumTypeVars - 1) : \A t \in {u_a, u_b} :
          (u_log.calls > 0 /\ MustBind(v, t) /\ v \in ReachedFrom(t, u_log.before)) =>
              /\ ~u_log.ok
              /\ u_log.err = <<"OccursCheck">>
              /\ u_subst = u_log.before

\* a call was refused because the variable occurs in the other type only
\* through a binding made by an earlier call
C21_Witness ==
    /\ u_log.calls > 1
    /\ u_log.err = <<"OccursCheck">>
    /\ \E v \in 0..(NumTypeVars - 1) : \E t \in {u_a, u_b} :
          /\ MustBind(v, t)
          /\ v \notin VarsOf(t)
          /\ v \in ReachedFrom(t, u_log.before)
    /\ u_subst # EmptyMap

-----------------------------------------------------------------------------
(* Claims about the Level-1 checker (specification SpecL1)                 *)

\* the graph is the identity lambda: the root is a Lambda whose body is its
\* binder, a Variable whose definition points back at the Lambda
IsIdentityLambda(g) ==
    LET root == g.nodes[g.root_node_id] IN
    /\ root.type_ = "TermLambda"
    /\ LET lambda == root.term_lambda[1]
           body == g.nodes[lambda.body_node_id]
       IN  /\ lambda.body_node_id = lambda.binder_variable_node_id
           /\ body.type_ = "TermVariable"
           /\ body.term_variable[1].definition_node_id = g.root_node_id

\* C7: checking the identity lambda succeeds and types the root as a
\* function from the parameter type to the same type.
C7_IdentityLambdaChecks ==
    (l1_out # None /\ IsIdentityLambda(l1_graph)) =>
        /\ l1_out[1].ok
        /\ LET ty == l1_out[1].types[l1_graph.root_node_id]
           IN  IsFunction(ty) /\ ty[2] = ty[3]

\* the graph is +(1, true)
IsPlusIntBool(g) ==
    LET root == g.nodes[g.root_node_id] IN
    /\ root.type_ = "PrimitiveOp"
    /\ root.primitive_op[1].op_name = "+"
    /\ Len(root.primitive_op[1].argument_node_ids) = 2
    /\ g.nodes[root.primitive_op[1].argument_node_ids[1]].type_ = "LiteralInt"
    /\ g.nodes[root.primitive_op[1].argument_node_ids[2]].type_ = "LiteralBool"

InferCount(n) == Cardinality({ i \in DOMAIN l1_calls : l1_calls[i] = n })

\* C20: within one call of check_and_annotate_graph, infer runs at most once
\* on each node of the graph.
C20_InferredOnce ==
    l1_out # None => \A n \in DOMAIN l1_graph.nodes : InferCount(n) <= 1

\* the graph is \x:Int. +(x, 1)
IsAddOneLambda(g) == g \in L1AddOne

\* C22: when checking succeeds no entry of the returned map holds a variable
\* that the final substitution binds, and \x:Int. +(x, 1) checks with
\* Function(Int, Int) at its root.
C22_TypeMapResolved ==
    l1_out # None =>
        /\ l1_out[1].ok =>
              \A n \in DOMAIN l1_out[1].types :
                  VarsOf(l1_out[1].types[n]) \cap DOMAIN l1_out[1].subst = {}
        /\ IsAddOneLambda(l1_graph) =>
              /\ l1_out[1].ok
              /\ l1_out[1].types[l1_graph.root_node_id] = T_Function(T_Int, T_Int)

\* the type Unit of the specification; enum Type has no such variant
T_Unit == <<"Unit">>

\* the root assigns a value to a reference cell of the value's type
IsAssignToCell(g) == g \in L1Cells /\ g.root_node_id = 3

\* C23: an Assign(r, v) whose r has type Ref a, with a unifying with the type
\* of v, is given the type Unit.
C23_AssignIsUnit ==
    (l1_out # None /\ IsAssignToCell(l1_graph)) =>
        /\ l1_out[1].ok
        /\ l1_out[1].types[l1_graph.root_node_id] = T_Unit

\* C24: Deref(r) checks whenever the type of r unifies with Ref a: the read of
\* a reference cell has the type of its content, and the read of a lambda
\* parameter, whose type is an unbound variable, checks as well.
C24_DerefUnifies ==
    l1_out # None =>
        /\ (l1_graph \in L1Cells /\ l1_graph.root_node_id = 4) =>
              /\ l1_out[1].ok
              /\ l1_out[1].types[4] = l1_out[1].types[1]
        /\ l1_graph \in L1DerefParam => l1_out[1].ok

-----------------------------------------------------------------------------
(* Claims about the Level-2 checker (specification SpecL2)                 *)

\* the last call was the effect-checking entry point
EffectsChecked ==
    l2_out # None /\ l2_out[1].entry = "check_and_annotate_graph_v2_with_effects_check"

MissingCtors(g) ==
    LET dm == g.nodes[g.root_node_id].data_match[1]
        defs == g.nodes[1].data_def[1].ctor_defs
        used == { dm.arms[i].ctor_name : i \in 1..Len(dm.arms) }
    IN  { defs[k].name : k \in 1..Len(defs) } \ used

\* C10: checking a match whose arms do not name every constructor of the
\* datatype fails with NonExhaustiveMatch(datatype, missing constructors).
C10_NonExhaustiveMatchFails ==
    (/\ l2_out # None
     /\ l2_out[1].entry \in {"check_and_annotate_graph_v2", "infer"}
     /\ MissingCtors(l2_graph) # {}) =>
        /\ ~l2_out[1].ok
        /\ l2_out[1].err[1] = "NonExhaustiveMatch"
        /\ l2_out[1].err[2] = "Option"
        /\ l2_out[1].err[3] = MissingCtors(l2_graph)
        /\ { l2_out[1].err[3][i] : i \in 1..Len(l2_out[1].err[3]) } = MissingCtors(l2_graph)

-----------------------------------------------------------------------------
(* Claims about the Level-0 validator (specification SpecLint)             *)

\* every NodeId-valued field of a node, whatever its kind
NodeIdFields(node) ==
    CASE node.type_ = "TermVariable" /\ node.term_variable # None ->
            {node.term_variable[1].definition_node_id}
      [] node.type_ = "TermLambda" /\ node.term_lambda # None ->
            {node.term_lambda[1].binder_variable_node_id, node.term_lambda[1].body_node_id}
            \cup { node.term_lambda[1].type_annotation_id[i] :
                     i \in 1..Len(node.term_lambda[1].type_annotation_id) }
      [] node.type_ = "TermApplication" /\ node.term_application # None ->
            {node.term_application[1].function_node_id,
             node.term_application[1].argument_node_id}
      [] node.type_ = "PrimitiveOp" /\ node.primitive_op # None ->
            { node.primitive_op[1].argument_node_ids[i] :
                i \in 1..Len(node.primitive_op[1].argument_node_ids) }
      [] node.type_ = "TermRef" /\ node.term_ref # None ->
            {node.term_ref[1].init_value_node_id}
      [] node.type_ = "TermDeref" /\ node.term_deref # None ->
            {node.term_deref[1].ref_node_id}
      [] node.type_ = "TermAssign" /\ node.term_assign # None ->
            {node.term_assign[1].ref_node_id, node.term_assign[1].value_node_id}
      [] node.type_ = "EffectPerform" /\ node.effect_perform # None ->
            {node.effect_perform[1].value_node_id}
      [] node.type_ = "Metadata" /\ node.metadata # None ->
            {node.metadata[1].node_id}
      [] node.type_ = "TypeAbs" /\ node.type_abs # None ->
            {node.type_abs[1].body_node_id}
      [] OTHER -> {}

\* C11: a node with a field holding a non-zero id that is not a key of the
\* node map gets an INTEGRITY (L001) diagnostic from the validator.
C11_IntegrityReported ==
    l0_out # None =>
        \A n \in DOMAIN l0_graph.nodes :
            (\E id \in NodeIdFields(l0_graph.nodes[n]) :
                id # 0 /\ id \notin DOMAIN l0_graph.nodes)
            => \E e \in l0_out[1] : e.code = "L001" /\ e.node_id = n

\* a Lambda or a TypeAbs (the graphs of this model hold no match arm)
IsBinderNode(g, id) ==
    id \in DOMAIN g.nodes /\ g.nodes[id].type_ \in {"TermLambda", "TypeAbs"}

\* the Variable nodes of the validated graph
LintVariables ==
    { n \in DOMAIN l0_graph.nodes :
        /\ l0_graph.nodes[n].type_ = "TermVariable"
        /\ l0_graph.nodes[n].term_variable # None }

\* C12: when the validator returns no diagnostic every Variable's definition
\* resolves to a binder; a Variable whose definition is 0, unresolved or not
\* a binder gets a SCOPE (L002) diagnostic.
C12_ScopeSound ==
    l0_out # None =>
        /\ l0_out[1] = {} =>
              \A n \in LintVariables :
                  IsBinderNode(l0_graph, l0_graph.nodes[n].term_variable[1].definition_node_id)
        /\ \A n \in LintVariables :
              LET d == l0_graph.nodes[n].term_variable[1].definition_node_id IN
              (d = 0 \/ ~IsBinderNode(l0_graph, d))
              => \E e \in l0_out[1] : e.code = "L002" /\ e.node_id = n

-----------------------------------------------------------------------------
(* Claims about the lowerer (specification SpecLower)                      *)

\* lower_graph_to_upir has returned a module
LoweredOk == lw_out # None /\ lw_out[1].ok

\* the blocks of the returned module
ModuleBlocks ==
    LET fs == lw_out[1].module.functions IN
    UNION { UNION { { rg.blocks[b] : b \in DOMAIN rg.blocks } :
                    rg \in { f.regions[r] : r \in DOMAIN f.regions } } :
            f \in { fs[i] : i \in DOMAIN fs } }

\* the value definitions of a block: its arguments and its operation results
BlockDefs(blk) ==
    { blk.arguments[a].value_def : a \in DOMAIN blk.arguments }
    \cup UNION { { blk.operations[o].results[k] : k \in DOMAIN blk.operations[o].results } :
                 o \in DOMAIN blk.operations }

\* the graph nodes the lowerer has mapped to a value
LoweredNodes == DOMAIN lw_out[1].ctx.ir_value_map

\* the TypeIds recorded on the definitions of the value of node n
TypeIdsOfNode(n) ==
    { d.ty : d \in { d \in UNION { BlockDefs(blk) : blk \in ModuleBlocks } :
                       d.id = lw_out[1].ctx.ir_value_map[n] } }

C14_DefBeforeUse ==
    LoweredOk =>
        \A blk \in ModuleBlocks :
            LET args == { blk.arguments[a].value_def.id : a \in DOMAIN blk.arguments }
                res(o) == { blk.operations[o].results[k].id :
                              k \in DOMAIN blk.operations[o].results }
            IN  /\ \A o \in DOMAIN blk.operations :
                      /\ res(o) \cap args = {}
                      /\ \A o2 \in DOMAIN blk.operations : o # o2 => res(o) \cap res(o2) = {}
                /\ \A o \in DOMAIN blk.operations :
                      \A k \in DOMAIN blk.operations[o].operands :
                          blk.operations[o].operands[k]
                              \in args \cup UNION { res(e) : e \in 1..(o - 1) }

\* a module was returned for a body that uses the node 4 twice, node 4 itself
\* using x and the literal
C14_Witness ==
    /\ LoweredOk
    /\ lw_graph.root_node_id = 6
    /\ lw_graph.nodes[6].term_lambda[1].body_node_id = 5
    /\ lw_graph.nodes[5] = N_PrimOp("+", <<4, 4>>)
    /\ lw_graph.nodes[4].type_ = "PrimitiveOp"

\* the graph is (\x. +(x, 1))(42) with the application at the root
IsAppliedLambda ==
    /\ lw_graph.root_node_id = 8
    /\ lw_graph.nodes[6].term_lambda[1].body_node_id = 4
    /\ lw_graph.nodes[4].type_ = "PrimitiveOp"
    /\ lw_graph.nodes[4].primitive_op[1].argument_node_ids = <<1, 2>>
    /\ lw_graph.nodes[2] = N_LitInt(1)
    /\ {1, 2, 4} \subseteq DOMAIN lw_types
    /\ lw_types[1] = T_Int /\ lw_types[4] = T_Int

\* C15: lowering (\x. +(x, 1))(42) returns a module that holds a function for
\* the lambda and a func.call whose argument is the result of a
\* core.constant with value 42.
C15_RootApplicationLowers ==
    (lw_out # None /\ IsAppliedLambda) =>
        /\ lw_out[1].ok
        /\ \E i \in DOMAIN lw_out[1].module.functions :
              lw_out[1].module.functions[i].name = <<"lambda_", 6>>
        /\ \E blk \in ModuleBlocks : \E c, k \in DOMAIN blk.operations :
              /\ blk.operations[c].name = OpName("func", "call")
              /\ blk.operations[k].name = OpName("core", "constant")
              /\ blk.operations[k].attributes = ("value" :> <<"Integer", 42>>)
              /\ blk.operations[c].operands[2] = blk.operations[k].results[1].id

\* the effect tags an operation carries
OpEffectTags(op) ==
    IF "effect_tags" \in DOMAIN op
    THEN { op.effect_tags[i] : i \in DOMAIN op.effect_tags }
    ELSE {}

\* C16: when a node tagged [IO, State] is lowered, the returned module holds
\* an operation whose effect tags contain IO and State.
C16_EffectTagsSurvive ==
    (/\ LoweredOk
     /\ 4 \in LoweredNodes
     /\ lw_graph.nodes[4].effect_meta = EffectMeta(<<"IO", "State">>)) =>
        \E blk \in ModuleBlocks : \E o \in DOMAIN blk.operations :
            {"IO", "State"} \subseteq OpEffectTags(blk.operations[o])

\* C26: lower_graph_to_upir returns a module or a LoweringError for every
\* graph and type map, also when an expression is its own operand.
C26_LowererTerminates ==
    lw_out # None => lw_out[1] # StackOverflow

-----------------------------------------------------------------------------
(* Claims about hash_graph (specification SpecHash)                        *)

HashDone == hs_out # None

\* C17: two graphs with the same id-to-node mapping and the same root have the
\* same hash_graph digest, in whatever order their node maps yield the keys.
C17_OrderIndependent ==
    (HashDone /\ hs_a.nodes = hs_b.nodes /\ hs_a.root_id = hs_b.root_id) =>
        hs_out[1].digests[1] = hs_out[1].digests[2]

\* two equal graphs of two different nodes were hashed with their keys yielded
\* in different orders
C17_Witness ==
    /\ HashDone
    /\ hs_a = hs_b
    /\ ~hs_out[1].same_order
    /\ \E j, k \in DOMAIN hs_a.nodes :
          j # k /\ hs_a.nodes[j].content # hs_a.nodes[k].content
    /\ hs_out[1].digests[1] = hs_out[1].digests[2]

\* the keys at which the payloads of the two graphs differ
ChangedKeys ==
    { k \in DOMAIN hs_a.nodes : hs_a.nodes[k].content # hs_b.nodes[k].content }

\* hs_b is hs_a with the payload of one node replaced by another of its kind
OnePayloadReplaced ==
    /\ DOMAIN hs_a.nodes = DOMAIN hs_b.nodes
    /\ hs_a.root_id = hs_b.root_id
    /\ Cardinality(ChangedKeys) = 1
    /\ \A k \in ChangedKeys :
          /\ hs_a.nodes[k].type = hs_b.nodes[k].type
          /\ hs_a.nodes[k].content.variant = hs_b.nodes[k].content.variant

\* C18: replacing the payload of one node by a different payload of the same
\* kind changes hash_graph.
C18_PayloadSensitive ==
    (HashDone /\ OnePayloadReplaced) =>
        hs_out[1].digests[1] # hs_out[1].digests[2]

\* the payloads of a graph, in ascending order of the keys they are stored under
PayloadsInKeyOrder(g) ==
    LET ks == sort(CHOOSE o \in Orders(DOMAIN g.nodes) : TRUE)
    IN  [i \in 1..Len(ks) |-> <<g.nodes[ks[i]].type, g.nodes[ks[i]].content>>]

\* C19: two graphs that hold the same payloads under different ids, root unset
\* in both, have different hash_graph digests.
C19_IdsAreHashed ==
    (/\ HashDone
     /\ hs_a.root_id = None /\ hs_b.root_id = None
     /\ DOMAIN hs_a.nodes # DOMAIN hs_b.nodes
     /\ PayloadsInKeyOrder(hs_a) = PayloadsInKeyOrder(hs_b)) =>
        hs_out[1].digests[1] # hs_out[1].digests[2]

-----------------------------------------------------------------------------
(* Claims about the circuit breaker (specification SpecBreaker)            *)

\* the step is taken by a caller that is in the function f
StepIn(f) == \E t \in Callers : cb_thread'[t] # cb_thread[t] /\ cb_thread[t].ctx = f

\* C27: under every interleaving of the callers the state changes only from
\* Closed to Open with the failure counter at the threshold, from Open to
\* HalfOpen with the reset timeout elapsed, from HalfOpen to Closed with the
\* success counter at the threshold, from HalfOpen to Open in a
\* record_failure, and to Closed in a reset; and the success counter is 0
\* when HalfOpen is entered.
C27_StateMachine ==
    [][cb_state' # cb_state =>
         /\ \/ /\ cb_state = "Closed" /\ cb_state' = "Open"
               /\ failure_count >= failure_threshold
            \/ /\ cb_state = "Open" /\ cb_state' = "HalfOpen"
               /\ timeout_elapsed
            \/ /\ cb_state = "HalfOpen" /\ cb_state' = "Closed"
               /\ success_count >= success_threshold
            \/ /\ cb_state = "HalfOpen" /\ cb_state' = "Open"
               /\ StepIn("record_failure")
            \/ /\ cb_state' = "Closed"
               /\ StepIn("reset")
         /\ cb_state' = "HalfOpen" => success_count = 0]_vars

\* C28: a call of execute whose state() found the breaker Open with the reset
\* timeout not elapsed has returned an error, without invoking the operation
\* and without writing the failure or the success counter.
C28_OpenFailsFast ==
    \A t \in Callers :
        cb_thread[t].seen = Some("Open") =>
            /\ cb_thread[t].todo = <<>>
            /\ cb_thread[t].result = Some("Err")
            /\ ~cb_thread[t].invoked
            /\ ~cb_thread[t].touched

\* the breaker was opened by failure_threshold failures, and a call of execute
\* made before the reset timeout has come back
C28_Witness ==
    /\ cb_state = "Open" /\ ~timeout_elapsed
    /\ failure_count = failure_threshold
    /\ \E t \in Callers :
          /\ cb_thread[t].seen = Some("Open")
          /\ cb_thread[t].result = Some("Err")
          /\ cb_thread[t].todo = <<>>

-----------------------------------------------------------------------------
(* Claims about with_retry (specification SpecRetry)                       *)

RetryBound == IF wr_policy[1].max_retries >= 1 THEN wr_policy[1].max_retries ELSE 1

IsErr(out) == out[1] = "Err"

\* C30: with_retry invokes the operation at least once and at most
\* max(1, max_retries) times and is below that number while it runs; it
\* returns the result of the last invocation, which is the first Ok, or an
\* error at the bound, or an error of a fault type the policy does not apply
\* to; if that is the first error, the operation was invoked once.
C30_RetryBounded ==
    wr_run # None =>
        LET r == wr_run[1]
            n == Len(r.calls)
        IN  /\ n <= RetryBound
            /\ \A i \in 1..(n - 1) :
                  IsErr(r.calls[i]) /\ applies_to(wr_policy[1], fault_type_of(r.calls[i][2]))
            /\ r.result = None => n < RetryBound
            /\ r.result # None =>
                  /\ n >= 1
                  /\ r.result[1] = r.calls[n]
                  /\ IsErr(r.calls[n]) =>
                        \/ n = RetryBound
                        \/ ~applies_to(wr_policy[1], fault_type_of(r.calls[n][2]))
                  /\ (/\ IsErr(r.calls[1])
                      /\ ~applies_to(wr_policy[1], fault_type_of(r.calls[1][2]))) => n = 1

\* a policy of MaxRetries retries has made the operation run MaxRetries times,
\* and the error of the last run has come back
C30_Witness ==
    /\ wr_run # None /\ wr_run[1].result # None
    /\ wr_policy[1].max_retries = MaxRetries
    /\ Len(wr_run[1].calls) = MaxRetries
    /\ IsErr(wr_run[1].result[1])
    /\ Len(wr_run[1].slept) = MaxRetries - 1

-----------------------------------------------------------------------------
(* Claims about the scheduler (specification SpecSchedFair)                *)

\* spawn call i was made on a started scheduler that is running
SpawnedOnRunning(i) ==
    /\ sc_tasks[i].call # "none" /\ sc_tasks[i].on_started
    /\ ~sc_control.shutdown

====
